---- MODULE Spec2Model ----
(***************************************************************************)
(* A model of scene_lab's FlatbufferEditor (src/src/flatbuffer_editor.cpp, *)
(* src/include/scene_lab/flatbuffer_editor.h).                             *)
(*                                                                         *)
(* Text (std::string) is a sequence of one-character strings, so that the  *)
(* number and struct conversions are computed character by character as    *)
(* the code computes them.  The working buffer is the tree of values the   *)
(* reflection API reads out of the bytes: a table maps each field name to  *)
(* [present, v]; a scalar is an integer of the field's width, a string a   *)
(* text, a struct the sequence of its field values, a vector the sequence  *)
(* of its elements.  A flatbuffers::Table& / Struct& parameter becomes a   *)
(* value passed in and handed back.                                        *)
(***************************************************************************)
EXTENDS Integers, Sequences, FiniteSets, TLC

\* ------------------------------------------------------------------ bounds

\* Number of texts the user types into edit boxes in one behaviour.
MaxEvents == 2

\* Largest vector length the user may ask for in a size field.
MaxVecLen == 2

\* ------------------------------------------------------------------- text

Digits == <<"0", "1", "2", "3", "4", "5", "6", "7", "8", "9">>

IsDigit(c) == \E d \in 1..10 : Digits[d] = c

DigitVal(c) == (CHOOSE d \in 1..10 : Digits[d] = c) - 1

RECURSIVE ParseDigits(_, _)
\* The digits strtoll accumulates; it stops at the first non-digit.
ParseDigits(s, acc) ==
  IF s = <<>> \/ ~IsDigit(Head(s)) THEN acc
  ELSE ParseDigits(Tail(s), acc * 10 + DigitVal(Head(s)))

RECURSIVE ConsumeWhitespace(_)
\* Strip away whitespace from the start of a string.
ConsumeWhitespace(str) ==
  IF str = <<>> THEN <<>>
  ELSE IF Head(str) # " " THEN str
  ELSE ConsumeWhitespace(Tail(str))

\* flatbuffers::StringToInt is strtoll: leading blanks, an optional sign, then
\* digits; text with no leading number gives 0.
StringToInt(val) ==
  LET t == ConsumeWhitespace(val) IN
  IF t = <<>> THEN 0
  ELSE IF Head(t) = "-" THEN 0 - ParseDigits(Tail(t), 0)
  ELSE IF Head(t) = "+" THEN ParseDigits(Tail(t), 0)
  ELSE ParseDigits(t, 0)

RECURSIVE NatToString(_)
NatToString(n) ==
  IF n < 10 THEN <<Digits[n + 1]>>
  ELSE NatToString(n \div 10) \o <<Digits[(n % 10) + 1]>>

\* flatbuffers::NumToString on an integer.
NumToString(n) == IF n < 0 THEN <<"-">> \o NatToString(0 - n) ELSE NatToString(n)

\* The id suffix of a vector element, "[" + NumToString(i) + "]"; ids are
\* plain strings (they are only concatenated and compared).
IdxId(i) == "[" \o ToString(i) \o "]"

\* ----------------------------------------------------------------- schema

\* reflection::BaseType values the schema uses.
IsScalarType(base) == base \in {"UByte", "Byte"}

\* static_cast to the scalar's width in flatbuffers::SetAnyValueI.
CastTo(base, n) ==
  IF base = "UByte" THEN n % 256
  ELSE IF base = "Byte" THEN ((n + 128) % 256) - 128
  ELSE n

\* The declared numeric range of a scalar type.
RangeOf(base) == IF base = "UByte" THEN 0..255 ELSE (0 - 128)..127

Fld(name, base, index, element) ==
  [name |-> name, base |-> base, index |-> index, element |-> element]

\* schema.objects(): each object's is_struct and its fields in declared order.
\*   struct Vec2  { x:ubyte; y:ubyte; }
\*   table Sub    { val:ubyte; label:string; }
\*   table Root   { count:ubyte; name:string; pts:[Vec2]; }
\*   table Holder { sub:Sub; pos:Vec2; }
\*   struct Box   { min:Vec2; max:Vec2; }
\*   struct Cell  { box:Box; id:ubyte; }
Objects ==
  [ Vec2   |-> [is_struct |-> TRUE,
                fields |-> << Fld("x", "UByte", "", ""), Fld("y", "UByte", "", "") >>],
    Sub    |-> [is_struct |-> FALSE,
                fields |-> << Fld("val", "UByte", "", ""),
                              Fld("label", "String", "", "") >>],
    Root   |-> [is_struct |-> FALSE,
                fields |-> << Fld("count", "UByte", "", ""),
                              Fld("name", "String", "", ""),
                              Fld("pts", "Vector", "Vec2", "Obj") >>],
    Holder |-> [is_struct |-> FALSE,
                fields |-> << Fld("sub", "Obj", "Sub", ""),
                              Fld("pos", "Obj", "Vec2", "") >>],
    Box    |-> [is_struct |-> TRUE,
                fields |-> << Fld("min", "Obj", "Vec2", ""),
                              Fld("max", "Obj", "Vec2", "") >>],
    Cell   |-> [is_struct |-> TRUE,
                fields |-> << Fld("box", "Obj", "Box", ""),
                              Fld("id", "UByte", "", "") >>],
    Grid   |-> [is_struct |-> FALSE,
                fields |-> << Fld("cells", "Vector", "", "UByte") >>] ]

\* ------------------------------------------------------- struct text codec

kStructSep == <<",", " ">>
kStructBegin == <<"<", " ">>
kStructEnd == <<" ", ">">>

RECURSIVE ExtractScan(_, _, _)
\* The loop of ExtractInlineStructDef; i is the 1-based position in str.
ExtractScan(str, i, nest_level) ==
  IF i > Len(str) THEN <<>>
  ELSE
    LET n1 == IF str[i] = "<" THEN nest_level + 1
              ELSE IF str[i] = ">" THEN nest_level - 1
              ELSE nest_level
    IN IF str[i] = ">" /\ n1 = 0
       THEN LET ret == SubSeq(str, 2, i - 1)
            IN IF Len(ret) = 0 THEN <<" ">> ELSE ret
       ELSE IF n1 < 0 THEN <<>>
       ELSE ExtractScan(str, i + 1, n1)

ExtractInlineStructDef(str) == ExtractScan(str, 1, 0)

RECURSIVE ConsumeCommasAndWhitespace(_)
ConsumeCommasAndWhitespace(str) ==
  IF str = <<>> THEN <<>>
  ELSE IF Head(str) # "," /\ Head(str) # " " THEN str
  ELSE ConsumeCommasAndWhitespace(Tail(str))

RECURSIVE ConsumeNumberScan(_, _, _)
ConsumeNumberScan(str, i, got_decimal) ==
  IF i > Len(str) THEN <<>>
  ELSE IF IsDigit(str[i]) THEN ConsumeNumberScan(str, i + 1, got_decimal)
  ELSE IF str[i] = "." /\ ~got_decimal THEN ConsumeNumberScan(str, i + 1, TRUE)
  ELSE IF i = 1 /\ str[i] = "-" THEN ConsumeNumberScan(str, i + 1, got_decimal)
  ELSE SubSeq(str, i, Len(str))

\* Strip away an optional leading hyphen, digits and up to one decimal point.
ConsumeNumber(str) == ConsumeNumberScan(str, 1, FALSE)

RECURSIVE ParseStringIntoStruct(_, _, _, _)
RECURSIVE ParseStructFields(_, _, _, _, _)

\* The field loop of ParseStringIntoStruct from field k on.  write is
\* (struct_ptr != nullptr); val is the struct behind struct_ptr.
ParseStructFields(str0, objectdef, k, write, val) ==
  LET fields == Objects[objectdef].fields IN
  IF k > Len(fields) THEN [ok |-> TRUE, val |-> val]
  ELSE
    LET str == ConsumeWhitespace(str0)
        fielddef == fields[k]
    IN
    IF fielddef.base # "Obj"
    THEN \* Scalar value.
      LET new_str == ConsumeNumber(str) IN
      IF new_str = str THEN [ok |-> FALSE, val |-> val]
      ELSE
        LET v1 == IF write
                  THEN [val EXCEPT ![k] = CastTo(fielddef.base, StringToInt(str))]
                  ELSE val
            rest == ConsumeCommasAndWhitespace(new_str)
        IN IF Len(rest) = 0 THEN [ok |-> TRUE, val |-> v1]
           ELSE ParseStructFields(rest, objectdef, k + 1, write, v1)
    ELSE \* Sub-struct inside this struct.
      IF Objects[fielddef.index].is_struct
      THEN
        LET substr == ExtractInlineStructDef(str) IN
        IF Len(substr) = 0 THEN [ok |-> FALSE, val |-> val]
        ELSE
          LET sub == ParseStringIntoStruct(substr, fielddef.index, write, val[k]) IN
          IF ~sub.ok THEN [ok |-> FALSE, val |-> [val EXCEPT ![k] = sub.val]]
          ELSE
            LET v1 == [val EXCEPT ![k] = sub.val]
                str2 == SubSeq(str, Len(substr) + 1, Len(str))
                rest == ConsumeCommasAndWhitespace(str2)
            IN IF Len(rest) = 0 THEN [ok |-> TRUE, val |-> v1]
               ELSE ParseStructFields(rest, objectdef, k + 1, write, v1)
      ELSE
        LET rest == ConsumeCommasAndWhitespace(str) IN
        IF Len(rest) = 0 THEN [ok |-> TRUE, val |-> val]
        ELSE ParseStructFields(rest, objectdef, k + 1, write, val)

ParseStringIntoStruct(struct_def, objectdef, write, val) ==
  LET str == ExtractInlineStructDef(struct_def) IN
  IF Len(str) = 0 THEN [ok |-> FALSE, val |-> val]
  ELSE ParseStructFields(str, objectdef, 1, write, val)

RECURSIVE StructToString(_, _)
RECURSIVE StructFieldsToString(_, _, _)

StructFieldsToString(objectdef, fbstruct, k) ==
  LET fields == Objects[objectdef].fields IN
  IF k > Len(fields) THEN <<>>
  ELSE
    LET fielddef == fields[k]
        sep == IF k # 1 THEN kStructSep ELSE <<>>
        one == IF fielddef.base = "Obj"
               THEN IF Objects[fielddef.index].is_struct
                    THEN StructToString(fielddef.index, fbstruct[k])
                    ELSE <<>>
               ELSE NumToString(fbstruct[k])
    IN sep \o one \o StructFieldsToString(objectdef, fbstruct, k + 1)

\* StructToString with field_names_only = false.
StructToString(objectdef, fbstruct) ==
  kStructBegin \o StructFieldsToString(objectdef, fbstruct, 1) \o kStructEnd

\* ------------------------------------------------------------ visit modes

kCheckEdits == "kCheckEdits"
kDrawEditAuto == "kDrawEditAuto"
kDrawEditManual == "kDrawEditManual"
kDrawReadOnly == "kDrawReadOnly"
kCommitEdits == "kCommitEdits"

kNone == "kNone"
kCommit == "kCommit"
kRevert == "kRevert"

IsDraw(mode) == mode \in {kDrawEditAuto, kDrawEditManual, kDrawReadOnly}

IsDrawEdit(mode) == mode \in {kDrawEditAuto, kDrawEditManual}

\* The constructor sets expand_all_ to false and the model's host never calls
\* set_expand_all.
expand_all == FALSE

\* ------------------------------------------------------------ GUI toolkit
\* The editor state st handed through a traversal carries, besides the
\* members of FlatbufferEditor, the user's one event of the frame, ui:
\*   [kind |-> "none"]: no input, and no edit box is in edit;
\*   [kind |-> "type", id, text]: edit box id is clicked, is in edit, and
\*     text is typed into it;
\*   [kind |-> "click", id]: the pointer went down and up on widget id.
\* An edit box that was in edit in the frame before and is not in this one
\* was left: by Enter when no box is in edit now, by a click on another field
\* when that field's box is.
\* st.visited lists the ids VisitField was called with, in call order, and
\* st.drawn the widgets of the pass that take input.

NoEvent == [kind |-> "none", id |-> "", text |-> <<>>]

\* TextButton(...) & gui::kEventWentUp, and CheckEvent() & kEventWentDown.
Clicked(widget, st) == st.ui.kind = "click" /\ st.ui.id = widget

\* gui::Edit(ui_size(), edit_vec, edit_id, &edit_fields_[id]): the typed text
\* replaces the string, and the result is whether the box is in edit.
GuiEdit(id, st) ==
  [st |-> IF st.ui.kind = "type" /\ st.ui.id = id
          THEN [st EXCEPT !.edit_fields[id] = st.ui.text]
          ELSE st,
   in_edit |-> st.ui.kind = "type" /\ st.ui.id = id]

\* ------------------------------------------------------------- VisitField
\* A function's body is split where a value is used more than once, and the
\* value handed to the next part as a parameter.

\* Lines 462-497 of VisitField: the edit box, then the [apply] and [revert]
\* buttons of manual mode.
VisitFieldButtons(mode, value, id, s3) ==
  IF mode = kDrawEditManual /\ s3.edit_fields[id] # value
  THEN [st |-> [s3 EXCEPT
                  !.drawn = @ \cup {id \o "-apply", id \o "-revert"},
                  !.force_commit_field =
                     IF Clicked(id \o "-apply", s3) THEN id ELSE @,
                  !.force_src = IF Clicked(id \o "-apply", s3) THEN "apply" ELSE @,
                  !.edit_fields[id] =
                     IF Clicked(id \o "-revert", s3) THEN value ELSE @],
        ret |-> FALSE]
  ELSE [st |-> s3, ret |-> FALSE]

VisitFieldEdit(mode, value, id, e) ==
  VisitFieldButtons(mode, value, id,
    IF e.in_edit
    THEN [e.st EXCEPT !.currently_editing_field =
                         IF mode = kDrawEditAuto THEN id ELSE @,
                      !.keyboard_in_use = TRUE]
    ELSE e.st)

VisitFieldDraw(mode, value, id, s2) ==
  IF IsDrawEdit(mode)
  THEN VisitFieldEdit(mode, value, id,
                      GuiEdit(id, [s2 EXCEPT !.drawn = @ \cup {id}]))
  ELSE [st |-> s2, ret |-> FALSE]

\* VisitFieldCheck without the test of the mode: a modified draft makes
\* VisitField return true in every pass.
VisitFieldCheck_AnyMode(mode, value, id, s1) ==
  IF mode # kDrawReadOnly /\ s1.edit_fields[id] # value
  THEN IF s1.force_commit_field = "" \/ s1.force_commit_field = id
       THEN [st |-> [s1 EXCEPT !.edit_fields_modified = TRUE,
                               !.committed_fields = @ \cup {id}],
             ret |-> TRUE]
       ELSE VisitFieldDraw(mode, value, id,
                           [s1 EXCEPT !.edit_fields_modified = TRUE])
  ELSE VisitFieldDraw(mode, value, id, s1)

\* VisitField committing every modified field, whatever the forced field.
VisitFieldCheck_AllFields(mode, value, id, s1) ==
  IF mode # kDrawReadOnly /\ s1.edit_fields[id] # value
  THEN IF mode = kCommitEdits
       THEN [st |-> [s1 EXCEPT !.edit_fields_modified = TRUE,
                               !.committed_fields = @ \cup {id}],
             ret |-> TRUE]
       ELSE VisitFieldDraw(mode, value, id,
                           [s1 EXCEPT !.edit_fields_modified = TRUE])
  ELSE VisitFieldDraw(mode, value, id, s1)

\* Lines 442-461 of VisitField: is the draft modified, and is it to be
\* committed.
VisitFieldCheck(mode, value, id, s1) ==
  IF mode # kDrawReadOnly /\ s1.edit_fields[id] # value
  THEN IF mode = kCommitEdits
          /\ (s1.force_commit_field = "" \/ s1.force_commit_field = id)
       THEN [st |-> [s1 EXCEPT !.edit_fields_modified = TRUE,
                               !.committed_fields = @ \cup {id}],
             ret |-> TRUE]
       ELSE VisitFieldDraw(mode, value, id,
                           [s1 EXCEPT !.edit_fields_modified = TRUE])
  ELSE VisitFieldDraw(mode, value, id, s1)

VisitField(mode, value, id, st) ==
  VisitFieldCheck(mode, value, id,
    IF mode # kDrawReadOnly /\ id \notin DOMAIN st.edit_fields
    THEN [st EXCEPT !.visited = Append(@, id),
                    !.edit_fields = (id :> value) @@ @]
    ELSE [st EXCEPT !.visited = Append(@, id)])

AddFieldButton(mode, id, st) ==
  IF mode = kCommitEdits /\ st.force_commit_field = id
  THEN [st |-> st, ret |-> TRUE]
  ELSE IF IsDrawEdit(mode)
  THEN IF Clicked(id \o "-addField", st)
       THEN [st |-> [st EXCEPT !.drawn = @ \cup {id \o "-addField"},
                               !.force_commit_field = id, !.force_src = "add",
                               !.edit_fields_modified = TRUE],
             ret |-> FALSE]
       ELSE [st |-> [st EXCEPT !.drawn = @ \cup {id \o "-addField"}],
             ret |-> FALSE]
  ELSE [st |-> st, ret |-> FALSE]

\* ------------------------------------------------------- typed traversals
\* Each Visit* yields [st, tbl, ret]: the editor state, the visited table (or
\* struct, or vector) as the visit leaves it, and the function's result.

\* The all-zero-bytes encoding of an element of the given type.
RECURSIVE ZeroValue(_, _)
ZeroValue(base, index) ==
  IF base = "Obj"
  THEN [k \in 1..Len(Objects[index].fields) |->
          ZeroValue(Objects[index].fields[k].base, Objects[index].fields[k].index)]
  ELSE IF base = "String" THEN <<>>
  ELSE 0

\* flatbuffers::ResizeAnyVector: shrinking truncates from the end, growing
\* appends elements set to 0.
ResizeAnyVector(new_size, vec, element_base_type, index) ==
  IF new_size <= Len(vec) THEN SubSeq(vec, 1, new_size)
  ELSE vec \o [k \in 1..(new_size - Len(vec)) |-> ZeroValue(element_base_type, index)]

\* ScalarCommit without the write.
ScalarCommit_NoWrite(fielddef, table, id, r) ==
  [st |-> r.st, tbl |-> table, ret |-> FALSE]

\* The SetAnyFieldS branch of VisitFlatbufferScalar; r is VisitField's result.
ScalarCommit(fielddef, table, id, r) ==
  IF r.ret
  THEN [st |-> [r.st EXCEPT !.flatbuffer_modified = TRUE],
        tbl |-> [table EXCEPT ![fielddef.name].v =
                   CastTo(fielddef.base, StringToInt(r.st.edit_fields[id]))],
        ret |-> FALSE]
  ELSE [st |-> r.st, tbl |-> table, ret |-> FALSE]

VisitFlatbufferScalar(mode, fielddef, table, id, st) ==
  ScalarCommit(fielddef, table, id,
               VisitField(mode, NumToString(table[fielddef.name].v), id, st))

\* StringCommit that does not report the resize.
StringCommit_NoResize(fielddef, table, id, r) ==
  IF r.ret
  THEN [st |-> [r.st EXCEPT !.flatbuffer_modified = TRUE],
        tbl |-> [table EXCEPT ![fielddef.name].v = r.st.edit_fields[id]],
        ret |-> FALSE]
  ELSE [st |-> r.st, tbl |-> table, ret |-> FALSE]

\* The SetString branch of VisitFlatbufferString.
StringCommit(fielddef, table, id, r) ==
  IF r.ret
  THEN [st |-> [r.st EXCEPT !.flatbuffer_modified = TRUE],
        tbl |-> [table EXCEPT ![fielddef.name].v = r.st.edit_fields[id]],
        ret |-> TRUE]
  ELSE [st |-> r.st, tbl |-> table, ret |-> FALSE]

VisitFlatbufferString(mode, fielddef, table, id, st) ==
  StringCommit(fielddef, table, id,
               VisitField(mode, table[fielddef.name].v, id, st))

\* StructCommit without the validating call: the draft is parsed straight
\* into the struct.
StructCommit_NoValidate(objectdef, fbstruct, id, r) ==
  IF r.ret
  THEN [st |-> [r.st EXCEPT !.flatbuffer_modified = TRUE],
        tbl |-> ParseStringIntoStruct(r.st.edit_fields[id], objectdef, TRUE,
                                      fbstruct).val,
        ret |-> FALSE]
  ELSE [st |-> r.st, tbl |-> fbstruct, ret |-> FALSE]

\* The validate-then-write branch of VisitFlatbufferStruct.
StructCommit(objectdef, fbstruct, id, r) ==
  IF r.ret /\ ParseStringIntoStruct(r.st.edit_fields[id], objectdef, FALSE,
                                    fbstruct).ok
  THEN [st |-> [r.st EXCEPT !.flatbuffer_modified = TRUE],
        tbl |-> ParseStringIntoStruct(r.st.edit_fields[id], objectdef, TRUE,
                                      fbstruct).val,
        ret |-> FALSE]
  ELSE [st |-> r.st, tbl |-> fbstruct, ret |-> FALSE]

\* tbl is the struct.
VisitFlatbufferStruct(mode, objectdef, fbstruct, id, st) ==
  StructCommit(objectdef, fbstruct, id,
               VisitField(mode, StructToString(objectdef, fbstruct), id, st))

RECURSIVE VisitFlatbufferTable(_, _, _, _, _)
RECURSIVE VisitTableFields(_, _, _, _, _, _)
RECURSIVE VisitTableNext(_, _, _, _, _)
RECURSIVE VisitFlatbufferField(_, _, _, _, _, _)
RECURSIVE VisitSubtable(_, _, _, _, _)
RECURSIVE VisitFlatbufferVector(_, _, _, _, _)
RECURSIVE VisitVectorElems(_, _, _, _, _, _)
RECURSIVE VisitVectorNext(_, _, _, _, _, _, _)

\* VisitSubtable skipping a collapsed subtable in every mode.
VisitSubtable_ExpandedOnly(mode, id, subobjdef, subtable, st) ==
  IF expand_all \/ id \in st.expanded_subtables
  THEN
    VisitFlatbufferTable(mode, subobjdef, subtable, id,
      IF IsDraw(mode)
      THEN [st EXCEPT !.drawn = @ \cup {id \o "-fieldName"},
                      !.expanded_subtables =
                         IF Clicked(id \o "-fieldName", st) /\ ~expand_all
                         THEN @ \ {id} ELSE @]
      ELSE st)
  ELSE IF IsDraw(mode)
  THEN [st |-> [st EXCEPT !.drawn = @ \cup {id \o "-field"},
                          !.expanded_subtables =
                             IF Clicked(id \o "-field", st) THEN @ \cup {id} ELSE @],
        tbl |-> subtable, ret |-> FALSE]
  ELSE [st |-> st, tbl |-> subtable, ret |-> FALSE]

VisitSubtable(mode, id, subobjdef, subtable, st) ==
  IF mode = kCommitEdits \/ mode = kCheckEdits \/ expand_all
     \/ id \in st.expanded_subtables
  THEN
    VisitFlatbufferTable(mode, subobjdef, subtable, id,
      IF IsDraw(mode)
      THEN [st EXCEPT !.drawn = @ \cup {id \o "-fieldName"},
                      !.expanded_subtables =
                         IF Clicked(id \o "-fieldName", st) /\ ~expand_all
                         THEN @ \ {id} ELSE @]
      ELSE st)
  ELSE IF IsDraw(mode)
  THEN \* Show this table collapsed.
    [st |-> [st EXCEPT !.drawn = @ \cup {id \o "-field"},
                       !.expanded_subtables =
                          IF Clicked(id \o "-field", st) THEN @ \cup {id} ELSE @],
     tbl |-> subtable, ret |-> FALSE]
  ELSE [st |-> st, tbl |-> subtable, ret |-> FALSE]

\* What follows the visit of element i in the element loops: r is the
\* visit's result (r.tbl the element), stop whether the loop returns true on
\* r.ret.
VisitVectorNext(mode, fielddef, vec, id, i, stop, r) ==
  IF stop /\ r.ret
  THEN [st |-> r.st, tbl |-> [vec EXCEPT ![i + 1] = r.tbl], ret |-> TRUE]
  ELSE VisitVectorElems(mode, fielddef, [vec EXCEPT ![i + 1] = r.tbl], id,
                        i + 1, r.st)

\* The write of a string element; r is VisitField's result.
StringElemCommit(elem, id, r) ==
  IF r.ret
  THEN [st |-> [r.st EXCEPT !.flatbuffer_modified = TRUE],
        tbl |-> r.st.edit_fields[id], ret |-> TRUE]
  ELSE [st |-> r.st, tbl |-> elem, ret |-> FALSE]

\* The write of a scalar element; r is VisitField's result.
ScalarElemCommit(element_base_type, elem, id, r) ==
  IF r.ret
  THEN [st |-> [r.st EXCEPT !.flatbuffer_modified = TRUE],
        tbl |-> CastTo(element_base_type, StringToInt(r.st.edit_fields[id])),
        ret |-> FALSE]
  ELSE [st |-> r.st, tbl |-> elem, ret |-> FALSE]

\* The element loops of VisitFlatbufferVector from element i (0-based) on;
\* tbl is the vector.
VisitVectorElems(mode, fielddef, vec, id, i, st) ==
  IF i >= Len(vec) THEN [st |-> st, tbl |-> vec, ret |-> FALSE]
  ELSE IF fielddef.element = "String"
  THEN VisitVectorNext(mode, fielddef, vec, id, i, TRUE,
         StringElemCommit(vec[i + 1], id \o IdxId(i),
                          VisitField(mode, vec[i + 1], id \o IdxId(i), st)))
  ELSE IF fielddef.element = "Obj"
  THEN IF ~Objects[fielddef.index].is_struct
       THEN \* This is a vector of tables.
         VisitVectorNext(mode, fielddef, vec, id, i, TRUE,
           VisitSubtable(mode, id \o IdxId(i), fielddef.index, vec[i + 1], st))
       ELSE \* This is a vector of structs.
         VisitVectorNext(mode, fielddef, vec, id, i, FALSE,
           VisitFlatbufferStruct(mode, fielddef.index, vec[i + 1],
                                 id \o IdxId(i), st))
  ELSE \* This is a vector of scalars: the value shown is the draft, if any.
       VisitVectorNext(mode, fielddef, vec, id, i, FALSE,
         ScalarElemCommit(fielddef.element, vec[i + 1], id \o IdxId(i),
           VisitField(mode,
                      IF (id \o IdxId(i)) \in DOMAIN st.edit_fields
                      THEN st.edit_fields[id \o IdxId(i)]
                      ELSE NumToString(vec[i + 1]),
                      id \o IdxId(i), st)))

\* Puts the visited vector (or subtable, or struct) r.tbl back in its table.
InTable(table, name, r) ==
  [st |-> r.st, tbl |-> [table EXCEPT ![name].v = r.tbl], ret |-> r.ret]

\* The resize branch of VisitFlatbufferVector and the element loops; r is
\* the result of VisitField on the size field.
VectorCommit(mode, fielddef, table, id, r) ==
  IF r.ret
  THEN \* uoffset_t new_size; the size texts of the model are within its range.
       [st |-> r.st,
        tbl |-> [table EXCEPT ![fielddef.name].v =
                   ResizeAnyVector(StringToInt(r.st.edit_fields[id \o ".size"]),
                                   @, fielddef.element, fielddef.index)],
        ret |-> TRUE]
  ELSE InTable(table, fielddef.name,
               VisitVectorElems(mode, fielddef, table[fielddef.name].v, id, 0, r.st))

\* VisitFlatbufferVector without the special case of the size field.
VisitFlatbufferVector_AutoSize(mode, fielddef, table, id, st) ==
  VectorCommit(mode, fielddef, table, id,
    VisitField(mode, NumToString(Len(table[fielddef.name].v)), id \o ".size", st))

\* tbl is the table that holds the vector.
VisitFlatbufferVector(mode, fielddef, table, id, st) ==
  \* Special: Don't auto-commit vector sizes back to the Flatbuffer.
  VectorCommit(mode, fielddef, table, id,
    VisitField(IF mode = kDrawEditAuto THEN kDrawEditManual ELSE mode,
               NumToString(Len(table[fielddef.name].v)), id \o ".size", st))

\* The branch of VisitFlatbufferField for a field the table does not hold
\* (!table.CheckField(fielddef.offset())); add is AddFieldButton's result.
VisitAbsentField(fielddef, table, add) ==
  IF fielddef.base = "String" /\ add.ret
  THEN \* The blank string is appended to the buffer; SetFieldT finds no
       \* slot for an absent field and leaves the table as it is.
       [st |-> [add.st EXCEPT !.flatbuffer_modified = TRUE],
        tbl |-> table, ret |-> TRUE]
  ELSE [st |-> add.st, tbl |-> table, ret |-> FALSE]

\* Structs never resize: the result of VisitFlatbufferStruct is dropped.
NoResize(r) == [r EXCEPT !.ret = FALSE]

VisitFlatbufferField(mode, fielddef, objectdef, table, id, st) ==
  IF ~table[fielddef.name].present
  THEN VisitAbsentField(fielddef, table,
                        AddFieldButton(mode, id \o "." \o fielddef.name, st))
  ELSE IF fielddef.base = "String"
  THEN VisitFlatbufferString(mode, fielddef, table, id \o "." \o fielddef.name, st)
  ELSE IF fielddef.base = "Obj"
  THEN IF Objects[fielddef.index].is_struct
       THEN InTable(table, fielddef.name,
              NoResize(VisitFlatbufferStruct(mode, fielddef.index,
                         table[fielddef.name].v, id \o "." \o fielddef.name, st)))
       ELSE InTable(table, fielddef.name,
              VisitSubtable(mode, id \o "." \o fielddef.name, fielddef.index,
                            table[fielddef.name].v, st))
  ELSE IF fielddef.base = "Vector"
  THEN VisitFlatbufferVector(mode, fielddef, table, id \o "." \o fielddef.name, st)
  ELSE VisitFlatbufferScalar(mode, fielddef, table, id \o "." \o fielddef.name, st)

\* The loop going on to the next field after a resize.
VisitTableNext_PastResize(mode, objectdef, id, k, r) ==
  VisitTableFields(mode, objectdef, r.tbl, id, k + 1, r.st)

VisitTableNext(mode, objectdef, id, k, r) ==
  IF r.ret THEN r
  ELSE VisitTableFields(mode, objectdef, r.tbl, id, k + 1, r.st)

\* The field loop of VisitFlatbufferTable from field k on.
VisitTableFields(mode, objectdef, table, id, k, st) ==
  IF k > Len(Objects[objectdef].fields)
  THEN [st |-> st, tbl |-> table, ret |-> FALSE]
  ELSE VisitTableNext(mode, objectdef, id, k,
         VisitFlatbufferField(mode, Objects[objectdef].fields[k], objectdef,
                              table, id, st))

VisitFlatbufferTable(mode, objectdef, table, id, st) ==
  VisitTableFields(mode, objectdef, table, id, 1, st)

\* ------------------------------------------------------------ buffer copy

RECURSIVE CopyTable(_, _)
RECURSIVE CopyValue(_, _, _, _)

\* What flatbuffers::CopyTable writes for one value of a field: a sub-table
\* is copied field by field, a struct, a string and a vector element by
\* element, a scalar as it is.
CopyValue(base, index, element, v) ==
  IF base = "Obj"
  THEN IF Objects[index].is_struct
       THEN [k \in 1..Len(Objects[index].fields) |->
               CopyValue(Objects[index].fields[k].base,
                         Objects[index].fields[k].index, "", v[k])]
       ELSE CopyTable(index, v)
  ELSE IF base = "Vector"
  THEN [k \in 1..Len(v) |-> CopyValue(element, index, "", v[k])]
  ELSE IF base = "String" THEN [k \in 1..Len(v) |-> v[k]]
  ELSE v

\* A copy that writes every string empty.
CopyField_NoStrings(fielddef, field) ==
  IF field.present
  THEN [present |-> TRUE,
        v |-> IF fielddef.base = "String" THEN << >>
              ELSE CopyValue(fielddef.base, fielddef.index, fielddef.element,
                             field.v)]
  ELSE field

\* The field of the table that fielddef declares, copied when it is present.
CopyField(fielddef, field) ==
  IF field.present
  THEN [present |-> TRUE,
        v |-> CopyValue(fielddef.base, fielddef.index, fielddef.element, field.v)]
  ELSE field

\* FlatbufferEditor::CopyTable(src, dest): flatbuffers::CopyTable over the
\* fields of objectdef; a field the table does not have is not written.
CopyTable(objectdef, table) ==
  [name \in {Objects[objectdef].fields[k].name :
               k \in 1..Len(Objects[objectdef].fields)} |->
     CopyField(Objects[objectdef].fields[
                 CHOOSE k \in 1..Len(Objects[objectdef].fields) :
                   Objects[objectdef].fields[k].name = name],
               table[name])]

\* ------------------------------------------------------------------ state

VARIABLES
  table_def_,               \* table_def_: the name of the root table's type
  flatbuffer,               \* flatbuffer_: [has |-> size() > 0, root |-> the root
                            \* table its storage holds, NullData when it has none]
  edit_fields,              \* edit_fields_: id -> text
  committed_fields,         \* committed_fields_
  error_fields,             \* error_fields_
  expanded_subtables,       \* expanded_subtables_
  currently_editing_field,  \* currently_editing_field_
  force_commit_field,       \* force_commit_field_
  button_pressed,           \* button_pressed_
  keyboard_in_use,          \* keyboard_in_use_
  config_read_only,         \* config_read_only_
  config_auto_commit,       \* config_auto_commit_
  config_allow_resize,      \* config_allow_resize_
  edit_fields_modified,     \* edit_fields_modified_
  flatbuffer_modified,      \* flatbuffer_modified_
  events,                   \* texts typed so far
  force_src,                \* what set force_commit_field_: "apply", "blur", "add", ""
  last,                     \* the last call: its name and what it did
  scene_lab,                \* the members of SceneLab
  process                   \* "running", or "crashed"

vars == << table_def_, flatbuffer, edit_fields, committed_fields, error_fields,
           expanded_subtables, currently_editing_field, force_commit_field,
           button_pressed, keyboard_in_use, config_read_only,
           config_auto_commit, config_allow_resize, edit_fields_modified,
           flatbuffer_modified, events, force_src, last, scene_lab, process >>

\* The members of FlatbufferEditor and the count of the user's input.
editorvars ==
  << table_def_, flatbuffer, edit_fields, committed_fields, error_fields,
     expanded_subtables, currently_editing_field, force_commit_field,
     button_pressed, keyboard_in_use, config_read_only, config_auto_commit,
     config_allow_resize, edit_fields_modified, flatbuffer_modified, events,
     force_src >>

\* What no method of FlatbufferEditor touches.
hostvars == << scene_lab, process >>

\* No table: a null flatbuffer_data, a vector without storage, a null
\* unique_ptr.
NullData == [null |-> TRUE]

\* No SceneLab has been constructed.
NoSceneLab == "none"

Running == process = "running"

\* set_root_id("fb")
root_id == "fb"

HasFlatbufferData == flatbuffer.has

\* The members a traversal reads and writes, with this frame's GUI input.
Ed(ui) ==
  [ edit_fields |-> edit_fields,
    committed_fields |-> committed_fields,
    expanded_subtables |-> expanded_subtables,
    currently_editing_field |-> currently_editing_field,
    force_commit_field |-> force_commit_field,
    button_pressed |-> button_pressed,
    keyboard_in_use |-> keyboard_in_use,
    edit_fields_modified |-> edit_fields_modified,
    flatbuffer_modified |-> flatbuffer_modified,
    force_src |-> force_src,
    error_fields |-> error_fields,
    ui |-> ui,
    visited |-> <<>>,
    drawn |-> {} ]

\* What last records of a call: op, the call; forced and button, the
\* requests pending when Update() began; passes and resized, the CommitEdits
\* passes Update() ran and those of them that returned true; check_ret and
\* draw_ret, what the two traversals of Draw() returned; left, the edit box
\* that was in edit before this Draw() and is no longer.
Last(op, forced, button, passes, resized, check_ret, draw_ret, left) ==
  [op |-> op, forced |-> forced, button |-> button, passes |-> passes,
   resized |-> resized, check_ret |-> check_ret, draw_ret |-> draw_ret,
   left |-> left]

Field(v) == [present |-> TRUE, v |-> v]

\* The table instances an editor is constructed with, by root type:
\*   Root   { count: 3, name: "a", pts: [ <1, 2> ] }
\*   Holder { sub: { val: 5, label: "l" }, pos: <3, 4> }
SourceTable ==
  [ Root   |-> [ count |-> Field(3),
                 name  |-> Field(<<"a">>),
                 pts   |-> Field(<< <<1, 2>> >>) ],
    Holder |-> [ sub |-> Field([val |-> Field(5), label |-> Field(<<"l">>)]),
                 pos |-> Field(<<3, 4>>) ] ]

\* FlatbufferEditor(config, schema, table_def, flatbuffer_data), with
\* set_root_id.  The constructor leaves config_allow_resize_ and
\* keyboard_in_use_ unset.
Init ==
  /\ table_def_ \in DOMAIN SourceTable
  /\ flatbuffer = [has |-> TRUE,
                   root |-> CopyTable(table_def_, SourceTable[table_def_])]
  /\ edit_fields = << >>
  /\ committed_fields = {}
  /\ error_fields = {}
  /\ expanded_subtables = {}
  /\ currently_editing_field = ""
  /\ force_commit_field = ""
  /\ button_pressed = kNone
  /\ keyboard_in_use \in BOOLEAN
  /\ config_read_only \in BOOLEAN
  /\ config_auto_commit \in BOOLEAN
  /\ config_allow_resize \in BOOLEAN
  /\ edit_fields_modified = FALSE
  /\ flatbuffer_modified = FALSE
  /\ events = 0
  /\ force_src = ""
  /\ last = Last("Init", "", kNone, 0, 0, FALSE, FALSE, "")
  /\ scene_lab = NoSceneLab
  /\ process = "running"

\* ------------------------------------------------------------- user input

ScalarIds == {root_id \o ".count", root_id \o ".sub.val"}
StringIds == {root_id \o ".name", root_id \o ".sub.label"}
SizeIds == {root_id \o ".pts.size"}
StructIds == {root_id \o ".pos"} \cup {root_id \o ".pts" \o IdxId(i) : i \in 0..MaxVecLen}

\* Texts the user types into a scalar field: a value of the field's range,
\* a value past the range, and text that is no number.
ScalarTexts ==
  { <<"2", "5", "5">>, <<"2", "5", "6">>,
    <<"n", "o", "t", "a", "n", "u", "m", "b", "e", "r">> }

StringTexts == { <<"a", "b">>, <<>> }

StructTexts ==
  { <<"<", " ", "7", ",", " ", "8", " ", ">">>,
    <<"<", " ", "7", ",", " ", "x", " ", ">">> }

SizeTexts == { NumToString(n) : n \in 0..MaxVecLen }

\* The fields of a Grid: the elements of its vector of scalars, and the
\* vector's size, into which the user also types a length with a leading
\* zero.
ElementIds == {root_id \o ".cells" \o IdxId(i) : i \in 0..MaxVecLen}
PaddedSizeIds == {root_id \o ".cells.size"}
PaddedSizeTexts == SizeTexts \cup { <<"0">> \o NumToString(MaxVecLen) }

UserTexts(id) ==
  IF id \in ScalarIds \cup ElementIds THEN ScalarTexts
  ELSE IF id \in StringIds THEN StringTexts
  ELSE IF id \in SizeIds THEN SizeTexts
  ELSE IF id \in PaddedSizeIds THEN PaddedSizeTexts
  ELSE IF id \in StructIds THEN StructTexts
  ELSE {}

\* ---------------------------------------------------------------- actions

\* The members as a traversal left them.
Install(st) ==
  /\ edit_fields' = st.edit_fields
  /\ committed_fields' = st.committed_fields
  /\ error_fields' = st.error_fields
  /\ expanded_subtables' = st.expanded_subtables
  /\ currently_editing_field' = st.currently_editing_field
  /\ force_commit_field' = st.force_commit_field
  /\ button_pressed' = st.button_pressed
  /\ keyboard_in_use' = st.keyboard_in_use
  /\ edit_fields_modified' = st.edit_fields_modified
  /\ flatbuffer_modified' = st.flatbuffer_modified
  /\ force_src' = st.force_src

DrawMode ==
  IF config_read_only THEN kDrawReadOnly
  ELSE IF config_auto_commit THEN kDrawEditAuto ELSE kDrawEditManual

\* The end of Draw(): a field that was in edit and is no longer is to be
\* committed.  d is the result of the drawing traversal.
DrawEnd(previously_editing_field, check_ret, d) ==
  [st |-> IF previously_editing_field # ""
             /\ d.st.currently_editing_field = ""
             /\ d.st.edit_fields_modified
          THEN [d.st EXCEPT !.force_commit_field = previously_editing_field,
                            !.force_src = "blur"]
          ELSE d.st,
   root |-> d.tbl, check_ret |-> check_ret, draw_ret |-> d.ret]

\* The drawing traversal of Draw(); b is the state after the buttons.
DrawVisit(root, check_ret, b) ==
  DrawEnd(b.currently_editing_field, check_ret,
          VisitFlatbufferTable(DrawMode, table_def_, root, root_id,
                               [b EXCEPT !.currently_editing_field = "",
                                         !.visited = <<>>]))

\* [Apply All] and [Revert All]; c is the result of the kCheckEdits traversal.
DrawButtons(c) ==
  DrawVisit(c.tbl, c.ret,
    IF ~config_auto_commit /\ c.st.edit_fields_modified
    THEN [c.st EXCEPT
            !.drawn = @ \cup {"[Apply All]", "[Revert All]"},
            !.button_pressed =
               IF Clicked("[Revert All]", c.st) THEN kRevert
               ELSE IF Clicked("[Apply All]", c.st) THEN kCommit
               ELSE @]
    ELSE c.st)

\* FlatbufferEditor::Draw() in a frame whose user event is ui.
DrawBody(ui) ==
  IF ~HasFlatbufferData
  THEN [st |-> [Ed(ui) EXCEPT !.keyboard_in_use = FALSE],
        root |-> flatbuffer.root, check_ret |-> FALSE, draw_ret |-> FALSE]
  ELSE DrawButtons(
         VisitFlatbufferTable(kCheckEdits, table_def_, flatbuffer.root, root_id,
                              [Ed(ui) EXCEPT !.keyboard_in_use = FALSE,
                                             !.edit_fields_modified = FALSE]))

\* The events a user can produce in a frame, given the widgets it draws:
\* input to one of them.
EventsOn(drawn) ==
  {NoEvent}
    \cup {[kind |-> "type", id |-> id, text |-> t] :
            id \in {b \in drawn \cap DOMAIN edit_fields : events < MaxEvents},
            t \in StringTexts \cup ScalarTexts \cup StructTexts
                    \cup PaddedSizeTexts}
    \cup {[kind |-> "click", id |-> w, text |-> <<>>] :
            w \in drawn \ DOMAIN edit_fields}

UserEvents == EventsOn(DrawBody(NoEvent).st.drawn)

DrawStep(ui, r) ==
  /\ Install(r.st)
  /\ flatbuffer' = [flatbuffer EXCEPT !.root = r.root]
  /\ events' = IF ui.kind = "type" THEN events + 1 ELSE events
  /\ last' = Last("Draw", "", kNone, 0, 0, r.check_ret, r.draw_ret,
                  IF currently_editing_field # r.st.currently_editing_field
                  THEN currently_editing_field ELSE "")
  /\ UNCHANGED <<table_def_, config_read_only, config_auto_commit,
                 config_allow_resize, hostvars>>

Draw ==
  \E ui \in UserEvents :
    /\ Running
    /\ ui.kind = "type" => ui.text \in UserTexts(ui.id) /\ ui.text # edit_fields[ui.id]
    /\ DrawStep(ui, DrawBody(ui))

\* ClearEditFields() forgetting what was committed as well.
ClearEditFields_AndCommitted(st) ==
  [st EXCEPT !.edit_fields = << >>, !.edit_fields_modified = FALSE,
             !.error_fields = {}, !.committed_fields = {},
             !.flatbuffer_modified = FALSE]

\* ClearEditFields()
ClearEditFields(st) ==
  [st EXCEPT !.edit_fields = << >>, !.edit_fields_modified = FALSE,
             !.error_fields = {}]

RECURSIVE CommitPasses(_, _, _, _, _)
RECURSIVE CommitAgain(_, _, _, _, _, _)

\* while (go_again); r is the result of the pass just run on st and root,
\* log the passes run so far: the fields each visited, what it returned, and
\* the buffer before and after it. A pass that returns true and leaves the
\* editor and the buffer as it found them is followed by the same pass for
\* ever: the loop does not return.
CommitAgain(passes, resized, log, st, root, r) ==
  LET logged == Append(log, [visited |-> r.st.visited, ret |-> r.ret,
                             before |-> root, after |-> r.tbl])
  IN IF r.ret
     THEN IF [r.st EXCEPT !.visited = << >>] = st /\ r.tbl = root
          THEN [st |-> r.st, root |-> r.tbl, passes |-> passes,
                resized |-> resized + 1, log |-> logged, returns |-> FALSE]
          ELSE CommitPasses([r.st EXCEPT !.visited = << >>], r.tbl, passes,
                            resized + 1, logged)
     ELSE [st |-> [r.st EXCEPT !.edit_fields_modified = FALSE], root |-> r.tbl,
           passes |-> passes, resized |-> resized, log |-> logged,
           returns |-> TRUE]

\* The do-while loop of CommitEditsToFlatbuffer; passes and resized count the
\* passes run so far and those of them that returned true.
CommitPasses(st, root, passes, resized, log) ==
  CommitAgain(passes + 1, resized, log, st, root,
              VisitFlatbufferTable(kCommitEdits, table_def_, root, root_id, st))

CommitEditsToFlatbuffer(st, root) == CommitPasses(st, root, 0, 0, << >>)

\* FlatbufferEditor::Update() up to its last two assignments.
UpdateBody ==
  IF force_commit_field # "" \/ button_pressed = kCommit
  THEN CommitEditsToFlatbuffer(Ed(NoEvent), flatbuffer.root)
  ELSE [st |-> IF button_pressed = kRevert THEN ClearEditFields(Ed(NoEvent))
               ELSE Ed(NoEvent),
        root |-> flatbuffer.root, passes |-> 0, resized |-> 0, log |-> << >>,
        returns |-> TRUE]

\* Update() without its last two assignments.
UpdateStep_KeepsRequests(r) ==
  /\ last' = Last("Update", force_commit_field, button_pressed, r.passes,
                  r.resized, FALSE, FALSE, "") @@ [log |-> r.log]
  /\ Install(r.st)
  /\ flatbuffer' = [flatbuffer EXCEPT !.root = r.root]
  /\ UNCHANGED <<table_def_, config_read_only, config_auto_commit,
                 config_allow_resize, events, hostvars>>

\* Update() returns, or it stays in the commit loop for ever when the loop
\* has no exit.
UpdateStep(r) ==
  /\ last' = Last("Update", force_commit_field, button_pressed, r.passes,
                  r.resized, FALSE, FALSE, "") @@ [log |-> r.log]
  /\ IF r.returns
     THEN /\ Install([r.st EXCEPT !.button_pressed = kNone,
                                  !.force_commit_field = "",
                                  !.force_src = ""])
          /\ flatbuffer' = [flatbuffer EXCEPT !.root = r.root]
          /\ UNCHANGED <<table_def_, config_read_only, config_auto_commit,
                         config_allow_resize, events, hostvars>>
     ELSE /\ process' = "hung"
          /\ UNCHANGED <<table_def_, flatbuffer, edit_fields, committed_fields,
                         error_fields, expanded_subtables,
                         currently_editing_field, force_commit_field,
                         button_pressed, keyboard_in_use, config_read_only,
                         config_auto_commit, config_allow_resize,
                         edit_fields_modified, flatbuffer_modified, events,
                         force_src, scene_lab>>

\* The process stops where it is.
Crash ==
  /\ process' = "crashed"
  /\ UNCHANGED <<table_def_, flatbuffer, edit_fields, committed_fields,
                 error_fields, expanded_subtables, currently_editing_field,
                 force_commit_field, button_pressed, keyboard_in_use,
                 config_read_only, config_auto_commit, config_allow_resize,
                 edit_fields_modified, flatbuffer_modified, events, force_src,
                 last, scene_lab>>

\* Update() does not test HasFlatbufferData().  With a commit pending and an
\* empty flatbuffer_, GetAnyRoot(flatbuffer_.data()) reads past the end of the
\* vector: the table in the storage clear() left behind when there is one
\* (the traversal then runs on it), address 0 when there is none.
UpdateOutcomes ==
  IF HasFlatbufferData \/ ~(force_commit_field # "" \/ button_pressed = kCommit)
  THEN {"returns"}
  ELSE IF flatbuffer.root = NullData THEN {"crashes"} ELSE {"crashes", "returns"}

Update ==
  /\ Running
  /\ \E outcome \in UpdateOutcomes :
       IF outcome = "crashes" THEN Crash ELSE UpdateStep(UpdateBody)

\* An editor on a table with a vector of scalars:
\*   Grid { cells: [ 4 ] }
GridTable == [ cells |-> Field(<<4>>) ]

InitGrid ==
  /\ table_def_ = "Grid"
  /\ flatbuffer = [has |-> TRUE, root |-> CopyTable(table_def_, GridTable)]
  /\ edit_fields = << >>
  /\ committed_fields = {}
  /\ error_fields = {}
  /\ expanded_subtables = {}
  /\ currently_editing_field = ""
  /\ force_commit_field = ""
  /\ button_pressed = kNone
  /\ keyboard_in_use \in BOOLEAN
  /\ config_read_only = FALSE
  /\ config_auto_commit \in BOOLEAN
  /\ config_allow_resize \in BOOLEAN
  /\ edit_fields_modified = FALSE
  /\ flatbuffer_modified = FALSE
  /\ events = 0
  /\ force_src = ""
  /\ last = Last("Init", "", kNone, 0, 0, FALSE, FALSE, "")
  /\ scene_lab = NoSceneLab
  /\ process = "running"

\* ClearFlatbufferModifiedFlag() discarding the drafts as well.
ClearModifiedFlag_AndDrafts(st) ==
  [st EXCEPT !.flatbuffer_modified = FALSE, !.committed_fields = {},
             !.edit_fields = << >>, !.edit_fields_modified = FALSE]

\* The body of ClearFlatbufferModifiedFlag().
ClearModifiedFlag(st) ==
  [st EXCEPT !.flatbuffer_modified = FALSE, !.committed_fields = {}]

ClearFlatbufferModifiedFlag ==
  /\ Running
  /\ Install(ClearModifiedFlag(Ed(NoEvent)))
  /\ last' = Last("ClearFlatbufferModifiedFlag", "", kNone, 0, 0, FALSE, FALSE, "")
  /\ UNCHANGED <<table_def_, flatbuffer, config_read_only, config_auto_commit,
                 config_allow_resize, events, hostvars>>

Next == Draw \/ Update \/ ClearFlatbufferModifiedFlag

Spec == Init /\ [][Next]_vars

SpecGrid == InitGrid /\ [][Next]_vars

\* set_config_read_only(b)
set_config_read_only ==
  \E b \in BOOLEAN :
    /\ Running
    /\ config_read_only' = b
    /\ last' = Last("set_config_read_only", "", kNone, 0, 0, FALSE, FALSE, "")
    /\ UNCHANGED <<table_def_, flatbuffer, edit_fields, committed_fields,
                   error_fields, expanded_subtables, currently_editing_field,
                   force_commit_field, button_pressed, keyboard_in_use,
                   config_auto_commit, config_allow_resize,
                   edit_fields_modified, flatbuffer_modified, events,
                   force_src, hostvars>>

\* An editor on a Holder whose read-only mode the caller switches.
InitReadOnly == Init /\ table_def_ = "Holder"

NextReadOnly ==
  \/ Draw
  \/ Update
  \/ ClearFlatbufferModifiedFlag
  \/ set_config_read_only

SpecReadOnly == InitReadOnly /\ [][NextReadOnly]_vars

\* ------------------------------------- replacing and copying the buffer

\* The flatbuffer_data a caller passes: nothing, or a table of the root type.
Sources == {NullData, SourceTable[table_def_]}

\* SetFlatbufferData without its call of ClearFlatbufferModifiedFlag().
ResetEdits_DraftsOnly(st) == ClearEditFields(st)

\* The body of SetFlatbufferData(flatbuffer_data) up to the copy.
ResetEdits(st) == ClearModifiedFlag(ClearEditFields(st))

\* SetFlatbufferData(flatbuffer_data).  flatbuffer_.clear() leaves the
\* vector's storage, and the table in it, where it is.
SetFlatbufferData ==
  /\ Running
  /\ \E flatbuffer_data \in Sources :
       /\ Install(ResetEdits(Ed(NoEvent)))
       /\ flatbuffer' = IF flatbuffer_data # NullData
                        THEN [has |-> TRUE,
                              root |-> CopyTable(table_def_, flatbuffer_data)]
                        ELSE [flatbuffer EXCEPT !.has = FALSE]
       /\ last' = [op |-> "SetFlatbufferData", flatbuffer_data |-> flatbuffer_data,
                    before |-> [edit_fields_modified |-> edit_fields_modified,
                                flatbuffer_modified |-> flatbuffer_modified]]
  /\ UNCHANGED <<table_def_, config_read_only, config_auto_commit,
                 config_allow_resize, events, hostvars>>

\* What the caller's flatbuffer_output holds before the call: an earlier copy.
CallerOutputs == {SourceTable[table_def_]}

\* GetFlatbufferCopy clearing the caller's output when there is no data.
CopyOut_ClearsOutput(variant, out) ==
  IF HasFlatbufferData
  THEN [ret |-> TRUE, out |-> CopyTable(table_def_, flatbuffer.root)]
  ELSE [ret |-> FALSE, out |-> NullData]

\* The three overloads of GetFlatbufferCopy: into a vector, into a string,
\* and returning a unique_ptr (out is then what the pointer points to).  The
\* string and the pointer are filled from the vector overload's copy, byte
\* for byte.  ret is the bool returned, or whether the pointer is not null.
CopyOut(variant, out) ==
  IF HasFlatbufferData
  THEN [ret |-> TRUE, out |-> CopyTable(table_def_, flatbuffer.root)]
  ELSE [ret |-> FALSE, out |-> IF variant = "unique_ptr" THEN NullData ELSE out]

GetFlatbufferCopy ==
  /\ Running
  /\ \E variant \in {"vector", "string", "unique_ptr"}, out \in CallerOutputs :
       last' = [op |-> "GetFlatbufferCopy", variant |-> variant,
                before |-> out, result |-> CopyOut(variant, out)]
  /\ UNCHANGED <<table_def_, flatbuffer, edit_fields, committed_fields,
                 error_fields, expanded_subtables, currently_editing_field,
                 force_commit_field, button_pressed, keyboard_in_use,
                 config_read_only, config_auto_commit, config_allow_resize,
                 edit_fields_modified, flatbuffer_modified, events, force_src,
                 hostvars>>

\* FlatbufferEditor(config, schema, table_def, flatbuffer_data) with a config
\* of manual commits, for a Holder, and any flatbuffer_data.
InitData ==
  /\ table_def_ = "Holder"
  /\ \E flatbuffer_data \in Sources :
       /\ flatbuffer = IF flatbuffer_data # NullData
                       THEN [has |-> TRUE,
                             root |-> CopyTable(table_def_, flatbuffer_data)]
                       ELSE [has |-> FALSE, root |-> NullData]
       /\ last = [op |-> "FlatbufferEditor", flatbuffer_data |-> flatbuffer_data]
  /\ edit_fields = << >>
  /\ committed_fields = {}
  /\ error_fields = {}
  /\ expanded_subtables = {}
  /\ currently_editing_field = ""
  /\ force_commit_field = ""
  /\ button_pressed = kNone
  /\ keyboard_in_use \in BOOLEAN
  /\ config_read_only = FALSE
  /\ config_auto_commit = FALSE
  /\ config_allow_resize \in BOOLEAN
  /\ edit_fields_modified = FALSE
  /\ flatbuffer_modified = FALSE
  /\ events = 0
  /\ force_src = ""
  /\ scene_lab = NoSceneLab
  /\ process = "running"

NextData ==
  \/ Draw
  \/ Update
  \/ ClearFlatbufferModifiedFlag
  \/ SetFlatbufferData
  \/ GetFlatbufferCopy

SpecData == InitData /\ [][NextData]_vars

\* ------------------------------------------------------------- properties
\* Vocabulary of the properties: what a reader of the working buffer sees.

\* The scalar field an id of ScalarIds names, read from the working buffer.
ReadScalar(id) ==
  IF id = root_id \o ".count" THEN flatbuffer.root.count.v
  ELSE flatbuffer.root.sub.v.val.v

\* Its declared type.
ScalarType(id) ==
  IF id = root_id \o ".count" THEN Objects["Root"].fields[1].base
  ELSE Objects["Sub"].fields[1].base

\* The string field an id of StringIds names, read from the working buffer.
ReadString(id) ==
  IF id = root_id \o ".name" THEN flatbuffer.root.name.v
  ELSE flatbuffer.root.sub.v.label.v

\* The root table with that one string replaced.
WithString(root, id, text) ==
  IF id = root_id \o ".name" THEN [root EXCEPT !.name.v = text]
  ELSE [root EXCEPT !.sub.v.label.v = text]

\* text is the text form of a value of the type's range.
ValidNumeric(text, base) ==
  /\ StringToInt(text) \in RangeOf(base)
  /\ NumToString(StringToInt(text)) = text

\* The text form of every field of the working buffer, by id.
BufferTexts ==
  VisitFlatbufferTable(kCheckEdits, table_def_, flatbuffer.root, root_id,
                       [Ed(NoEvent) EXCEPT !.edit_fields = << >>]).st.edit_fields

\* The fields whose draft differs from the buffer.
ModifiedIds ==
  {g \in DOMAIN BufferTexts \cap DOMAIN edit_fields :
     edit_fields[g] # BufferTexts[g]}

\* The draft of field f cannot be parsed as a value of the field's type.
Errored(f) ==
  \/ f \in ScalarIds /\ ~ValidNumeric(edit_fields[f], ScalarType(f))
  \/ f \in StructIds
       /\ ~ParseStringIntoStruct(edit_fields[f], "Vec2", FALSE, <<0, 0>>).ok

\* The Update() about to run commits field f if its draft is modified.
CommitsField(f) ==
  \/ force_commit_field = f
  \/ force_commit_field = "" /\ button_pressed = kCommit

\* The step is a call of Update().
IsUpdate == last'.op = "Update"

\* The elements of Root's vector.
Pts == IF table_def_ = "Root" THEN flatbuffer.root.pts.v ELSE << >>

\* The parts of the buffer whose size an edit can change: the strings and
\* the vector's length.
ResizableParts ==
  IF table_def_ = "Root"
  THEN <<flatbuffer.root.name.v, Len(flatbuffer.root.pts.v)>>
  ELSE <<flatbuffer.root.sub.v.label.v>>

C2_InvalidScalarRejected ==
  [][\A f \in ScalarIds \cap DOMAIN edit_fields :
       (IsUpdate /\ CommitsField(f)
          /\ ~ValidNumeric(edit_fields[f], ScalarType(f)))
         => /\ ReadScalar(f)' = ReadScalar(f)
            /\ f \in error_fields']_vars

\* C3: an Update() that commits a string field whose draft has another length
\* than the string (the commit being of that field alone, or of all fields
\* with no other draft modified) runs exactly two passes, the first of which
\* reports a resize and the second does not; afterwards the field is the
\* draft and every other field of the buffer is unchanged.
C3_StringResize ==
  [][\A f \in StringIds \cap DOMAIN edit_fields :
       (/\ IsUpdate
        /\ Len(edit_fields[f]) # Len(ReadString(f))
        /\ \/ force_commit_field = f
           \/ CommitsField(f) /\ ModifiedIds \subseteq {f})
         => /\ last'.passes = 2
            /\ last'.resized = 1
            /\ flatbuffer'.root = WithString(flatbuffer.root, f, edit_fields[f])]_vars

\* A commit has replaced Root's name "a" by the longer "ab" in two passes
\* with one resize, and nothing else differs from the source table.
C3_Witness ==
  /\ last.op = "Update"
  /\ last.passes = 2
  /\ last.resized = 1
  /\ table_def_ = "Root"
  /\ (root_id \o ".name") \in committed_fields
  /\ flatbuffer.root = WithString(SourceTable["Root"], root_id \o ".name",
                                  <<"a", "b">>)

\* C4: in every reachable state, an Update() that commits a size draft alone
\* (no other field's draft differs from the buffer) and grows the vector from
\* length N to M > N leaves elements [0,N) unchanged and elements [N,M) all
\* zero when it returns.
C4_GrowthZeroFilled ==
  [][(/\ IsUpdate
      /\ Len(Pts') > Len(Pts)
      /\ \A f \in SizeIds : CommitsField(f)
      /\ ModifiedIds \subseteq SizeIds)
       => Pts' = Pts \o [k \in 1..(Len(Pts') - Len(Pts)) |->
                          ZeroValue("Obj", "Vec2")]]_vars

\* C5: flatbuffer_modified_ is true after every Update() that changed the
\* working buffer, whatever the kind of the edit.
C5_ModifiedAfterCommit ==
  [][(IsUpdate /\ flatbuffer' # flatbuffer) => flatbuffer_modified']_vars

\* C6: flatbuffer_modified_, once false, stays false through every call as
\* long as every modified draft is errored (unparseable scalar or struct
\* text).
C6_ErroredDraftsKeepFlag ==
  [][(~flatbuffer_modified /\ \A g \in ModifiedIds : Errored(g))
       => ~flatbuffer_modified']_vars

\* C7: a call of Draw() leaves the working buffer and flatbuffer_modified_
\* unchanged, and neither of its traversals returns true.
C7_OnlyCommitWrites ==
  [][last'.op = "Draw"
       => /\ flatbuffer' = flatbuffer
          /\ flatbuffer_modified' = flatbuffer_modified
          /\ ~last'.check_ret
          /\ ~last'.draw_ret]_vars

\* A Draw() has run over a modified draft, and the buffer is still the
\* source table.
C7_Witness ==
  /\ last.op = "Draw"
  /\ edit_fields_modified
  /\ ModifiedIds # {}
  /\ flatbuffer.root = SourceTable[table_def_]
  /\ ~flatbuffer_modified

\* The editor is at rest: Update() has run, no edit box is in edit and
\* nothing is pending, so that without user input no later call changes
\* anything.
AtRest ==
  /\ last.op = "Update"
  /\ currently_editing_field = ""
  /\ force_commit_field = ""
  /\ button_pressed = kNone

\* C8: in auto-commit mode, a scalar or string field the user has finished
\* editing (by Enter or by a click on another field) has its draft written
\* by a later Update() with no further input: once the editor is at rest no
\* such field has a well-formed draft that differs from the buffer.
C8_AutoCommitOnLeave ==
  (config_auto_commit /\ AtRest)
    => \A f \in (ScalarIds \cup StringIds) \cap ModifiedIds : Errored(f)

\* C9: in auto-commit mode the vector's length changes only in an Update()
\* that commits the size field after its [apply] button was pressed.
C9_SizeNeverAutoCommitted ==
  [][(config_auto_commit /\ Len(Pts') # Len(Pts))
       => /\ IsUpdate
          /\ force_commit_field \in SizeIds
          /\ force_src = "apply"]_vars

\* In auto-commit mode an Update() has applied the size field, and the
\* vector's length is no longer that of the source table.
C9_Witness ==
  /\ config_auto_commit
  /\ last.op = "Update"
  /\ last.forced \in SizeIds
  /\ table_def_ = "Root"
  /\ Len(Pts) # Len(SourceTable["Root"].pts.v)

\* C10: while config_allow_resize_ is false no string and no vector length
\* of the working buffer changes.
C10_NoResizeWhenDisallowed ==
  [][~config_allow_resize => ResizableParts' = ResizableParts]_vars

\* The struct an id of StructIds names, read from the working buffer; << >>
\* if the buffer holds no such struct.
ReadStruct(id) ==
  IF id = root_id \o ".pos"
  THEN IF table_def_ = "Holder" THEN flatbuffer.root.pos.v ELSE << >>
  ELSE IF \E i \in 0..(Len(Pts) - 1) : id = root_id \o ".pts" \o IdxId(i)
  THEN Pts[1 + CHOOSE i \in 0..(Len(Pts) - 1) : id = root_id \o ".pts" \o IdxId(i)]
  ELSE << >>

\* C11: an Update() that finds a struct's draft failing validation changes no
\* field of that struct (as long as the struct stays in the buffer), and if
\* no other draft is modified it leaves flatbuffer_modified_ as it is.
C11_InvalidStructUntouched ==
  [][\A f \in StructIds \cap DOMAIN edit_fields :
       (IsUpdate /\ Errored(f) /\ ReadStruct(f) # << >>)
         => /\ ReadStruct(f)' \in {ReadStruct(f), << >>}
            /\ ModifiedIds \subseteq {f}
                 => flatbuffer_modified' = flatbuffer_modified]_vars

\* A commit has reached the struct field pos with the draft "< 7, x >", whose
\* first number parses and whose second does not; pos is still <3, 4> and the
\* flag is still false.
C11_Witness ==
  /\ last.op = "Update"
  /\ table_def_ = "Holder"
  /\ (root_id \o ".pos") \in committed_fields
  /\ edit_fields[root_id \o ".pos"] = <<"<", " ", "7", ",", " ", "x", " ", ">">>
  /\ ReadStruct(root_id \o ".pos") = <<3, 4>>
  /\ ~flatbuffer_modified

\* ---------------------------------------------------------- construction

\* The FlatbufferEditorConfig tables a caller passes, by the two fields the
\* constructor copies.
Configs == [read_only : BOOLEAN, auto_commit_edits : BOOLEAN]

\* A null config.
NullConfig == [null |-> TRUE]

\* FlatbufferEditor(config, schema, table_def, flatbuffer_data) for a Holder,
\* with any config.  The constructor reads config->read_only() and
\* config->auto_commit_edits() before it tests config == nullptr: with a
\* null config the two reads are through address 0, and either end the
\* process or yield whatever is there.  last.null_reads counts them.
InitCtor ==
  /\ table_def_ = "Holder"
  /\ flatbuffer = [has |-> TRUE,
                   root |-> CopyTable(table_def_, SourceTable[table_def_])]
  /\ edit_fields = << >>
  /\ committed_fields = {}
  /\ error_fields = {}
  /\ expanded_subtables = {}
  /\ currently_editing_field = ""
  /\ force_commit_field = ""
  /\ button_pressed = kNone
  /\ keyboard_in_use \in BOOLEAN
  /\ config_allow_resize \in BOOLEAN
  /\ edit_fields_modified = FALSE
  /\ flatbuffer_modified = FALSE
  /\ events = 0
  /\ force_src = ""
  /\ scene_lab = NoSceneLab
  /\ \E config \in Configs \cup {NullConfig} :
       IF config # NullConfig
       THEN /\ config_read_only = config.read_only
            /\ config_auto_commit = config.auto_commit_edits
            /\ process = "running"
            /\ last = [op |-> "FlatbufferEditor", config |-> config, null_reads |-> 0]
       ELSE /\ config_read_only \in BOOLEAN
            /\ config_auto_commit \in BOOLEAN
            /\ process \in {"running", "crashed"}
            /\ last = [op |-> "FlatbufferEditor", config |-> config, null_reads |-> 2]

SpecCtor == InitCtor /\ [][Next]_vars

\* C19: constructing a FlatbufferEditor with a null config succeeds, and the
\* constructor never reads through the null pointer.
C19_NullConfigConstructs ==
  (last.op = "FlatbufferEditor" /\ last.config = NullConfig)
    => process = "running" /\ last.null_reads = 0

\* --------------------------------------------------- the struct text codec

\* No FlatbufferEditor object is in use: the static functions of the class
\* are called on their own.
NoEditor ==
  /\ table_def_ = "Root"
  /\ flatbuffer = [has |-> FALSE, root |-> NullData]
  /\ edit_fields = << >>
  /\ committed_fields = {}
  /\ error_fields = {}
  /\ expanded_subtables = {}
  /\ currently_editing_field = ""
  /\ force_commit_field = ""
  /\ button_pressed = kNone
  /\ keyboard_in_use = FALSE
  /\ config_read_only = FALSE
  /\ config_auto_commit = FALSE
  /\ config_allow_resize = FALSE
  /\ edit_fields_modified = FALSE
  /\ flatbuffer_modified = FALSE
  /\ events = 0
  /\ force_src = ""

\* The values of a struct's scalar fields the codec is run on.
CodecBytes == {0, 7, 255}

StructDefs == {o \in DOMAIN Objects : Objects[o].is_struct}

RECURSIVE StructValuesFrom(_, _)

\* The values of the struct objectdef's fields from field k on.
StructValuesFrom(objectdef, k) ==
  IF k > Len(Objects[objectdef].fields) THEN {<< >>}
  ELSE {<<v>> \o rest :
          v \in IF Objects[objectdef].fields[k].base = "Obj"
                THEN StructValuesFrom(Objects[objectdef].fields[k].index, 1)
                ELSE CodecBytes,
          rest \in StructValuesFrom(objectdef, k + 1)}

StructValues(objectdef) == StructValuesFrom(objectdef, 1)

\* A struct of the schema is at hand.
InitCodec ==
  /\ NoEditor
  /\ scene_lab = NoSceneLab
  /\ process = "running"
  /\ \E objectdef \in StructDefs :
       \E fbstruct \in StructValues(objectdef) :
         last = [op |-> "struct", objectdef |-> objectdef, fbstruct |-> fbstruct]

\* StructToString(schema, objectdef, fbstruct, false)
StructToStringCall ==
  /\ last.op = "struct"
  /\ last' = [op |-> "StructToString", objectdef |-> last.objectdef,
              fbstruct |-> last.fbstruct,
              output |-> StructToString(last.objectdef, last.fbstruct)]
  /\ UNCHANGED <<editorvars, hostvars>>

\* ParseStringIntoStruct(struct_def, schema, objectdef, struct_ptr) on the
\* text StructToString produced, into a struct of zero bytes.
ParseStringIntoStructCall ==
  /\ last.op = "StructToString"
  /\ last' = [op |-> "ParseStringIntoStruct", objectdef |-> last.objectdef,
              fbstruct |-> last.fbstruct, struct_def |-> last.output,
              result |-> ParseStringIntoStruct(last.output, last.objectdef, TRUE,
                                               ZeroValue("Obj", last.objectdef))]
  /\ UNCHANGED <<editorvars, hostvars>>

NextCodec == StructToStringCall \/ ParseStringIntoStructCall

SpecCodec == InitCodec /\ [][NextCodec]_vars

\* C15: ParseStringIntoStruct accepts the text StructToString produces for a
\* struct, and yields the struct's value, for every struct type, nested ones
\* included.
C15_StructRoundTrip ==
  last.op = "ParseStringIntoStruct"
    => last.result.ok /\ last.result.val = last.fbstruct

\* The round trip of a struct without struct fields succeeds.
C15_FlatRoundTrip ==
  (last.op = "ParseStringIntoStruct"
     /\ \A k \in 1..Len(Objects[last.objectdef].fields) :
          Objects[last.objectdef].fields[k].base # "Obj")
    => last.result.ok /\ last.result.val = last.fbstruct

\* ------------------------------------------------- struct drafts committed

RECURSIVE DraftValue(_)

\* The struct value the user means to type: 7 in every scalar.
DraftValue(objectdef) ==
  [k \in 1..Len(Objects[objectdef].fields) |->
     IF Objects[objectdef].fields[k].base = "Obj"
     THEN DraftValue(Objects[objectdef].fields[k].index)
     ELSE 7]

DraftKinds == {"exact", "fewer", "more", "token", "nonumber"}

\* What the user types for that value: its text as StructToString writes it,
\* the text without the last field's value, with one value more, with a
\* token after the last value, and a text with no number in it.
DraftText(objectdef, kind) ==
  LET all == StructFieldsToString(objectdef, DraftValue(objectdef), 1)
      tail == StructFieldsToString(objectdef, DraftValue(objectdef),
                                   Len(Objects[objectdef].fields))
  IN CASE kind = "exact" -> kStructBegin \o all \o kStructEnd
       [] kind = "fewer" ->
            kStructBegin \o SubSeq(all, 1, Len(all) - Len(tail)) \o kStructEnd
       [] kind = "more" ->
            kStructBegin \o all \o kStructSep \o <<"9">> \o kStructEnd
       [] kind = "token" -> kStructBegin \o all \o <<" ", "x">> \o kStructEnd
       [] OTHER -> kStructBegin \o <<"x">> \o kStructEnd

\* Lines 811-823 of VisitFlatbufferStruct, for a field whose draft VisitField
\* reported as edited: the draft is validated by ParseStringIntoStruct with
\* no struct to write to, and parsed into fbstruct when that call accepts it.
CommitStructDraft ==
  /\ last.op = "struct"
  /\ \E kind \in DraftKinds :
       LET draft == DraftText(last.objectdef, kind) IN
       last' = [op |-> "VisitFlatbufferStruct", objectdef |-> last.objectdef,
                fbstruct |-> last.fbstruct, kind |-> kind, draft |-> draft,
                result |-> StructCommit(last.objectdef, last.fbstruct, "draft",
                             [st |-> [edit_fields |-> [id \in {"draft"} |-> draft],
                                      flatbuffer_modified |-> FALSE],
                              ret |-> TRUE])]
  /\ UNCHANGED <<editorvars, hostvars>>

NextDraft == CommitStructDraft \/ StructToStringCall

SpecDraft == InitCodec /\ [][NextDraft]_vars

\* ------------------------------------------------------ the enum resolver

\* schema.enums(): each enum's values in declared order.
\*   enum Flags4 : ubyte (bit_flags) { A, B, C, D }    // 1, 2, 4, 8
\*   enum Flags2 : ubyte (bit_flags) { A, B }          // 1, 2
\*   enum Kind   : ubyte { X = 0, Y = 1, Z = 3 }
EnumVal(name, value) == [name |-> name, value |-> value]

Enums ==
  [ Flags4 |-> << EnumVal(<<"A">>, 1), EnumVal(<<"B">>, 2),
                  EnumVal(<<"C">>, 4), EnumVal(<<"D">>, 8) >>,
    Flags2 |-> << EnumVal(<<"A">>, 1), EnumVal(<<"B">>, 2) >>,
    Kind   |-> << EnumVal(<<"X">>, 0), EnumVal(<<"Y">>, 1), EnumVal(<<"Z">>, 3) >> ]

\* The name of an enum as text.
EnumName ==
  [ Flags4 |-> <<"F", "l", "a", "g", "s", "4">>,
    Flags2 |-> <<"F", "l", "a", "g", "s", "2">>,
    Kind   |-> <<"K", "i", "n", "d">> ]

\* The integers resolved: 0 .. MaxEnumNum.
MaxEnumNum == 16

\* What the build makes of 1L << i.  long has long_bits bits; where it has
\* 32, a shift by 32 or more is undefined, and the processor's shift
\* yields 0 or shifts by i modulo 32.
Builds ==
  { [long_bits |-> 64, overshift |-> "none"],
    [long_bits |-> 32, overshift |-> "zero"],
    [long_bits |-> 32, overshift |-> "wrap"] }

\* Bit i of n, for i below 31.
Bit(n, i) == (n \div (2 ^ i)) % 2 = 1

\* n & (1L << i) != 0, for 0 <= n < 2^31: bit 31 of a 32-bit long is its
\* sign, which the conversion to uint64_t extends into bits n does not have.
BitTest(n, i, build) ==
  IF i < build.long_bits THEN i < 31 /\ Bit(n, i)
  ELSE IF build.overshift = "wrap" THEN (i - 32) < 31 /\ Bit(n, i - 32)
  ELSE FALSE

\* NumBitsSet(n): the loop over the 8 * sizeof(uint64_t) values of i.
NumBitsSet(n, build) == Cardinality({i \in 0..63 : BitTest(n, i, build)})

RECURSIVE BitAnd(_, _)
\* a & b
BitAnd(a, b) ==
  IF a = 0 \/ b = 0 THEN 0
  ELSE (IF a % 2 = 1 /\ b % 2 = 1 THEN 1 ELSE 0) + 2 * BitAnd(a \div 2, b \div 2)

kFlagSep == <<" ", "|", " ">>
kUnknown == <<"?", "?", "?">>
kBlank == <<"-", "b", "l", "a", "n", "k", "-">>

RECURSIVE FindEnumValue(_, _, _, _, _)
\* The first loop of GetEnumTypeAndValue from value ev (1-based) on.
FindEnumValue(e, ev, num, is_bit_flags, build) ==
  IF ev > Len(e)
  THEN [found |-> FALSE, value_name |-> << >>, is_bit_flags |-> is_bit_flags]
  ELSE IF e[ev].value = num
  THEN [found |-> TRUE, value_name |-> e[ev].name,
        is_bit_flags |-> is_bit_flags /\ ~(NumBitsSet(e[ev].value, build) > 1)]
  ELSE FindEnumValue(e, ev + 1, num,
                     is_bit_flags /\ ~(NumBitsSet(e[ev].value, build) > 1), build)

RECURSIVE CollectFlags(_, _, _, _)
\* The second loop of GetEnumTypeAndValue from value ev on, and the test
\* for left-over bits that follows it.
CollectFlags(e, ev, bit_num, value_name) ==
  IF ev > Len(e)
  THEN IF bit_num # 0 /\ Len(value_name) > 0
       THEN value_name \o kFlagSep \o kUnknown
       ELSE value_name
  ELSE IF BitAnd(e[ev].value, bit_num) # 0
  THEN CollectFlags(e, ev + 1, bit_num - BitAnd(e[ev].value, bit_num),
                    (IF Len(value_name) > 0 THEN value_name \o kFlagSep
                     ELSE value_name) \o e[ev].name)
  ELSE CollectFlags(e, ev + 1, bit_num, value_name)

\* The value_name of a num that f, the result of the first loop, did not
\* find among the enum's values.
NameOfUnlisted(e, num, f) ==
  IF f.found THEN f.value_name
  ELSE IF f.is_bit_flags
  THEN IF num = 0 THEN kBlank ELSE CollectFlags(e, 1, num, << >>)
  ELSE kUnknown

Parenthesized(value_name) ==
  IF Len(value_name) > 0 THEN <<"(">> \o value_name \o <<")">> ELSE value_name

\* GetEnumTypeAndValue(schema, fielddef, value, &type, &value_name), where
\* index is fielddef.type()->index(): the name of an enum, or "" for -1.
GetEnumTypeAndValue(index, value, build) ==
  IF index # ""
  THEN [ret |-> NumToString(StringToInt(value)),
        type |-> EnumName[index],
        value_name |->
          Parenthesized(
            NameOfUnlisted(Enums[index], StringToInt(value),
                           FindEnumValue(Enums[index], 1, StringToInt(value),
                                         TRUE, build)))]
  ELSE [ret |-> value, type |-> << >>, value_name |-> << >>]

\* A scalar field, of an enum type or of none, and its value as text, in
\* one of the builds.
InitEnum ==
  /\ NoEditor
  /\ scene_lab = NoSceneLab
  /\ process = "running"
  /\ \E index \in DOMAIN Enums \cup {""}, num \in 0..MaxEnumNum, build \in Builds :
       last = [op |-> "field", index |-> index, num |-> num, build |-> build]

GetEnumTypeAndValueCall ==
  /\ last.op = "field"
  /\ last' = [op |-> "GetEnumTypeAndValue", index |-> last.index,
              num |-> last.num, build |-> last.build,
              result |-> GetEnumTypeAndValue(last.index, NumToString(last.num),
                                             last.build)]
  /\ UNCHANGED <<editorvars, hostvars>>

NextEnum == GetEnumTypeAndValueCall

SpecEnum == InitEnum /\ [][NextEnum]_vars

\* ---- what the resolver is to yield, from the enum's declaration

Declared(index, num) == \E ev \in 1..Len(Enums[index]) : Enums[index][ev].value = num

\* Every declared value has exactly one bit set.
IsBitflagEnum(index) ==
  \A ev \in 1..Len(Enums[index]) :
    \E i \in 0..30 : Enums[index][ev].value = 2 ^ i

\* The declared flag ev has its bit set in num.
FlagSet(index, ev, num) == (num \div Enums[index][ev].value) % 2 = 1

RECURSIVE JoinedFlags(_, _, _)
\* The names of the declared flags from ev on whose bit is set in num,
\* joined by the separator.
JoinedFlags(index, ev, num) ==
  IF ev > Len(Enums[index]) THEN << >>
  ELSE IF FlagSet(index, ev, num)
  THEN IF JoinedFlags(index, ev + 1, num) = << >>
       THEN Enums[index][ev].name
       ELSE Enums[index][ev].name \o kFlagSep \o JoinedFlags(index, ev + 1, num)
  ELSE JoinedFlags(index, ev + 1, num)

\* num has a set bit that is the bit of no declared flag.
HasResidualBits(index, num) ==
  \E i \in 0..30 :
    Bit(num, i) /\ \A ev \in 1..Len(Enums[index]) : Enums[index][ev].value # 2 ^ i

Contains(text, part) ==
  \E i \in 1..(Len(text) - Len(part) + 1) :
    SubSeq(text, i, i + Len(part) - 1) = part

\* An integer that is not a declared value was resolved against a bitflag
\* enum.
ResolvedUnlistedFlags ==
  /\ last.op = "GetEnumTypeAndValue"
  /\ last.index # ""
  /\ IsBitflagEnum(last.index)
  /\ ~Declared(last.index, last.num)

\* C16: for a bitflag enum, an integer that is not a declared value resolves
\* to the names of exactly the declared flags whose bit is set, joined by the
\* separator in declaration order, and 0 resolves to the blank sentinel.
C16_BitflagNames ==
  ResolvedUnlistedFlags
    => IF last.num = 0
       THEN last.result.value_name = <<"(">> \o kBlank \o <<")">>
       ELSE JoinedFlags(last.index, 1, last.num) # << >>
              => last.result.value_name
                   \in { <<"(">> \o JoinedFlags(last.index, 1, last.num) \o <<")">>,
                         <<"(">> \o JoinedFlags(last.index, 1, last.num)
                           \o kFlagSep \o kUnknown \o <<")">> }

\* C16 in the builds whose long has 64 bits.
C16_BitflagNames64 ==
  last.build.long_bits = 64 => C16_BitflagNames

\* C17: for a bitflag enum, an integer with a set bit that matches no
\* declared flag resolves to an annotation that contains the unrecognized
\* marker, also when no declared flag matches.
C17_ResidualBitsMarked ==
  (ResolvedUnlistedFlags /\ HasResidualBits(last.index, last.num))
    => Contains(last.result.value_name, kUnknown)

\* C17 for the integers in which a declared flag is set, in the builds whose
\* long has 64 bits.
C17_ResidualBitsMarkedBesideFlags ==
  (/\ ResolvedUnlistedFlags
   /\ HasResidualBits(last.index, last.num)
   /\ JoinedFlags(last.index, 1, last.num) # << >>
   /\ last.build.long_bits = 64)
    => Contains(last.result.value_name, kUnknown)

\* ----------------------------------------------------------------- SceneLab

\* enum InputMode
kMoving == "kMoving"
kEditing == "kEditing"
kDragging == "kDragging"

\* scene_lab holds the members exit_requested_, exit_ready_,
\* entities_modified_, input_mode_, selected_entity_ and entity_cycler_, the
\* entities of the entity manager, and request, the history of the exit
\* request: "unset" until a call has written exit_requested_, then "none"
\* when the last such call was Activate() or AbortExit(), "accepted" when it
\* was a RequestExit() that went through.

\* The entity manager holds at most MaxEntities entities.
MaxEntities == 2

\* EntityRef(), and entity_manager_->end() for the entity cycler.
NoEntity == 0

\* entities[e] is the selection_option of the EditOptionsData of entity e,
\* kNoSuchEntity when the entity manager has no entity e.
kNoSuchEntity == "absent"
SelectionOption_Any == "Any"
SelectionOption_CycleOnly == "CycleOnly"
SelectionOption_PointerOnly == "PointerOnly"
SelectionOptions == {SelectionOption_Any, SelectionOption_PointerOnly}

EntityIds(entities) == {e \in 1..MaxEntities : entities[e] # kNoSuchEntity}

\* entity_manager_->begin()
FirstEntity(entities) ==
  IF EntityIds(entities) = {} THEN NoEntity
  ELSE CHOOSE e \in EntityIds(entities) : \A o \in EntityIds(entities) : e <= o

\* The cycler after the FPLK_RIGHTBRACKET branch.
NextEntity(entities, cycler) ==
  LET after == {e \in EntityIds(entities) : e > cycler}
      inc == IF cycler = NoEntity \/ after = {} THEN NoEntity
             ELSE CHOOSE e \in after : \A o \in after : e <= o
  IN IF inc = NoEntity THEN FirstEntity(entities) ELSE inc

\* The cycler after the FPLK_LEFTBRACKET branch; with no entity the decrement
\* leaves the list, and off_list is where the build then points it.
PrevEntity(entities, cycler, off_list) ==
  LET from == IF cycler = FirstEntity(entities) THEN NoEntity ELSE cycler
      before == IF from = NoEntity THEN EntityIds(entities)
                ELSE {e \in EntityIds(entities) : e < from}
  IN IF before = {} THEN off_list
     ELSE CHOOSE e \in before : \A o \in before : e >= o

\* The do-while loop of AdvanceFrame with a bracket key down: the cycler
\* steps until it is on an entity that cycling may select, or on the selected
\* entity. left counts the steps still to try; once every entity was passed
\* the loop has no exit.
RECURSIVE CycleEntities(_, _, _, _, _, _)
CycleEntities(entities, selected, cycler, key, off_list, left) ==
  LET stepped == IF key = "]" THEN NextEntity(entities, cycler)
                 ELSE PrevEntity(entities, cycler, off_list)
  IN IF stepped \in EntityIds(entities)
          /\ entities[stepped] \in
               {SelectionOption_Any, SelectionOption_CycleOnly}
     THEN [selected |-> stepped, cycler |-> stepped, returns |-> TRUE]
     ELSE IF stepped = selected
     THEN [selected |-> selected, cycler |-> stepped, returns |-> TRUE]
     ELSE IF left = 0 \/ stepped \notin EntityIds(entities) \cup {NoEntity}
     THEN [selected |-> selected, cycler |-> stepped, returns |-> FALSE]
     ELSE CycleEntities(entities, selected, stepped, key, off_list, left - 1)

\* SceneLab has no constructor, and Initialize() sets input_mode_ only: the
\* three flags hold what the memory held.  mouse_locked is the controller's
\* mouse_locked_, false from its constructor; activated records that
\* Activate() was called, and drag_entity the entity selected when the mode
\* last became kDragging, while it is kDragging.
InitSceneLab ==
  /\ NoEditor
  /\ process = "running"
  /\ last = [op |-> "Initialize", ret |-> FALSE]
  /\ \E exit_requested \in BOOLEAN, exit_ready \in BOOLEAN,
        entities_modified \in BOOLEAN :
       \E option \in SelectionOptions :
         scene_lab = [exit_requested |-> exit_requested,
                      exit_ready |-> exit_ready,
                      entities_modified |-> entities_modified,
                      input_mode |-> kMoving,
                      selected_entity |-> NoEntity,
                      entity_cycler |-> NoEntity,
                      mouse_locked |-> FALSE,
                      activated |-> FALSE,
                      drag_entity |-> NoEntity,
                      entities |-> [e \in 1..MaxEntities |->
                                      IF e = 1 THEN option ELSE kNoSuchEntity],
                      request |-> "unset"]

\* A call of SceneLab op that returned ret left the members as lab.
SceneLabStep(op, ret, lab) ==
  /\ Running
  /\ scene_lab' = lab
  /\ last' = [op |-> op, ret |-> ret]
  /\ UNCHANGED <<editorvars, process>>

Activate ==
  SceneLabStep("Activate", FALSE,
               [scene_lab EXCEPT !.exit_requested = FALSE,
                                 !.exit_ready = FALSE,
                                 !.entities_modified = FALSE,
                                 !.input_mode = kMoving,
                                 !.mouse_locked = TRUE,
                                 !.activated = TRUE,
                                 !.entity_cycler = NoEntity,
                                 !.request = "none"])

\* Deactivate(): SaveScene(false) ends with set_entities_modified(false),
\* then no entity is selected.
Deactivate ==
  SceneLabStep("Deactivate", FALSE,
               [scene_lab EXCEPT !.entities_modified = FALSE,
                                 !.selected_entity = NoEntity,
                                 !.entity_cycler = NoEntity])

\* The input mode after lines 103-135 of AdvanceFrame: toggle is the mode
\* button going down outside the GUI, interact_up the interact button going
\* up.
ToggledMode(input_mode, toggle, interact_up) ==
  IF input_mode = kMoving THEN (IF toggle THEN kEditing ELSE kMoving)
  ELSE IF input_mode = kEditing THEN (IF toggle THEN kMoving ELSE kEditing)
  ELSE IF toggle THEN kMoving
  ELSE IF interact_up THEN kEditing
  ELSE kDragging

\* controller_->mouse_locked() after the same lines: leaving kMoving calls
\* UnlockMouse(), a toggle to kMoving calls LockMouse().
ToggledLock(mouse_locked, input_mode, toggle) ==
  IF toggle THEN input_mode # kMoving ELSE mouse_locked

\* What the user does outside the GUI in one frame: a key going down, or the
\* interact button going down with the pointer on entity hit (on none when
\* hit is NoEntity). FPLK_INSERT is left out when the entity manager is full.
FrameInputs(entities) ==
  {[key |-> k, hit |-> NoEntity] : k \in {"none", "]", "[", "delete", "click"}}
    \cup {[key |-> "click", hit |-> e] : e \in EntityIds(entities)}
    \cup (IF EntityIds(entities) = 1..MaxEntities THEN {}
          ELSE {[key |-> "insert", hit |-> NoEntity]})

\* Lines 139-175 of AdvanceFrame: the bracket keys.
CycleStage(lab, can_deselect, input, off_list) ==
  IF can_deselect /\ input.key \in {"]", "["}
  THEN CycleEntities(lab.entities, lab.selected_entity, lab.entity_cycler,
                     input.key, off_list, MaxEntities + 1)
  ELSE [selected |-> lab.selected_entity, cycler |-> lab.entity_cycler,
        returns |-> TRUE]

\* Lines 177-220 of AdvanceFrame: the interact button going down, cycled
\* being what CycleStage left.
ClickStage(lab, cycled, can_deselect, input) ==
  IF ~(can_deselect /\ input.key = "click")
  THEN [selected |-> cycled.selected, cycler |-> cycled.cycler,
        start_dragging |-> FALSE]
  ELSE IF input.hit = NoEntity
  THEN [selected |-> NoEntity, cycler |-> NoEntity, start_dragging |-> FALSE]
  ELSE IF lab.input_mode = kEditing /\ input.hit = cycled.selected
  THEN [selected |-> cycled.selected, cycler |-> input.hit,
        start_dragging |-> TRUE]
  ELSE [selected |-> IF lab.entities[input.hit] \in
                          {SelectionOption_Any, SelectionOption_PointerOnly}
                     THEN input.hit ELSE cycled.selected,
        cycler |-> input.hit,
        start_dragging |-> FALSE]

\* The id DuplicateEntity gives the new entity.
NewEntity(entities) ==
  CHOOSE e \in 1..MaxEntities : /\ entities[e] = kNoSuchEntity
                                /\ \A o \in 1..(e - 1) : entities[o] # kNoSuchEntity

\* Lines 222-263 of AdvanceFrame, with an entity selected: the transform
\* follows the input, FPLK_INSERT duplicates the entity and selects the
\* duplicate, FPLK_DELETE deletes it.
EditStage(lab, clicked, moved, input) ==
  IF clicked.selected = NoEntity
  THEN [lab EXCEPT !.selected_entity = NoEntity,
                   !.entity_cycler = clicked.cycler]
  ELSE IF input.key = "insert"
  THEN [lab EXCEPT !.entities_modified = @ \/ moved,
                   !.entities[NewEntity(lab.entities)] =
                      lab.entities[clicked.selected],
                   !.selected_entity = NewEntity(lab.entities),
                   !.entity_cycler = NewEntity(lab.entities)]
  ELSE IF input.key = "delete"
  THEN [lab EXCEPT !.entities_modified = @ \/ moved,
                   !.entities[clicked.selected] = kNoSuchEntity,
                   !.selected_entity = NoEntity,
                   !.entity_cycler = NoEntity]
  ELSE [lab EXCEPT !.entities_modified = @ \/ moved,
                   !.selected_entity = clicked.selected,
                   !.entity_cycler = clicked.cycler]

\* Lines 273-330 of AdvanceFrame: intersect is the pointer ray meeting the
\* drag plane, can_exit what gui_->CanExit() returns.
ExitStage(lab, start_dragging, intersect, can_exit) ==
  [lab EXCEPT
     !.input_mode = IF start_dragging /\ @ = kEditing
                       /\ lab.selected_entity # NoEntity /\ intersect
                    THEN kDragging ELSE @,
     !.drag_entity = IF start_dragging /\ lab.input_mode = kEditing
                        /\ lab.selected_entity # NoEntity /\ intersect
                     THEN lab.selected_entity
                     ELSE IF lab.input_mode = kDragging THEN @ ELSE NoEntity,
     !.exit_ready = IF lab.exit_requested /\ can_exit
                    THEN ~lab.entities_modified ELSE FALSE]

\* AdvanceFrame(delta_time): toggle, interact_up and input are what the
\* controller reports, moved is ModifyTransformBasedOnInput returning true,
\* can_deselect what gui_->CanDeselectEntity() returns. A frame whose cycling
\* loop has no exit does not return.
AdvanceFrame ==
  \E toggle \in BOOLEAN, moved \in BOOLEAN, can_deselect \in BOOLEAN,
     interact_up \in IF scene_lab.input_mode = kDragging THEN BOOLEAN
                     ELSE {FALSE},
     can_exit \in IF scene_lab.exit_requested THEN BOOLEAN ELSE {FALSE},
     input \in FrameInputs(scene_lab.entities) :
    \E intersect \in IF input.hit # NoEntity THEN BOOLEAN ELSE {FALSE},
       off_list \in IF input.key = "[" /\ EntityIds(scene_lab.entities) = {}
                    THEN {NoEntity, -1} ELSE {NoEntity} :
      LET mode == [scene_lab EXCEPT
                     !.input_mode = ToggledMode(@, toggle, interact_up),
                     !.mouse_locked =
                        ToggledLock(@, scene_lab.input_mode, toggle)]
          cycled == CycleStage(mode, can_deselect, input, off_list)
          clicked == ClickStage(mode, cycled, can_deselect, input)
      IN /\ Running
         /\ last' = [op |-> "AdvanceFrame", ret |-> FALSE,
                     can_deselect |-> can_deselect, key |-> input.key]
         /\ UNCHANGED editorvars
         /\ IF cycled.returns
            THEN /\ scene_lab' = ExitStage(EditStage(mode, clicked, moved, input),
                                           clicked.start_dragging, intersect,
                                           can_exit)
                 /\ UNCHANGED process
            ELSE /\ process' = "crashed"
                 /\ UNCHANGED scene_lab

\* RequestExit(): can_deselect is what gui_->CanDeselectEntity() returns,
\* can_exit what gui_->CanExit() returns.
RequestExit ==
  \E can_deselect \in BOOLEAN, can_exit \in BOOLEAN :
    SceneLabStep("RequestExit", FALSE,
      IF scene_lab.input_mode # kDragging /\ can_deselect
      THEN [scene_lab EXCEPT !.exit_requested = TRUE,
                             !.exit_ready = can_exit,
                             !.input_mode = IF can_exit THEN @ ELSE kEditing,
                             !.request = "accepted"]
      ELSE scene_lab)

\* AbortExit() that hides the dialog and leaves exit_requested_ set.
AbortExit_KeepsRequest ==
  SceneLabStep("AbortExit", FALSE, [scene_lab EXCEPT !.request = "none"])

AbortExit ==
  SceneLabStep("AbortExit", FALSE,
               [scene_lab EXCEPT !.exit_requested = FALSE, !.request = "none"])

\* set_entities_modified(b)
set_entities_modified ==
  \E b \in BOOLEAN :
    SceneLabStep("set_entities_modified", FALSE,
                 [scene_lab EXCEPT !.entities_modified = b])

IsReadyToExit ==
  SceneLabStep("IsReadyToExit",
               scene_lab.exit_requested /\ scene_lab.exit_ready, scene_lab)

NextSceneLab ==
  \/ Activate
  \/ Deactivate
  \/ AdvanceFrame
  \/ RequestExit
  \/ AbortExit
  \/ set_entities_modified
  \/ IsReadyToExit

SpecSceneLab == InitSceneLab /\ [][NextSceneLab]_vars

\* C20: IsReadyToExit() returns true only if a RequestExit() was accepted
\* since the last Activate() and no AbortExit() was called since; after
\* Activate() or AbortExit() it returns false until a RequestExit() is
\* accepted.
C20_ReadyOnlyAfterAcceptedRequest ==
  /\ (last.op = "IsReadyToExit" /\ scene_lab.request = "none") => ~last.ret
  /\ (last.op = "IsReadyToExit" /\ last.ret /\ scene_lab.request # "unset")
       => scene_lab.request = "accepted"

\* IsReadyToExit() returned false after an AbortExit() that followed a
\* request the GUI had let through: exit_ready_ is still set.
C20_Witness ==
  /\ last.op = "IsReadyToExit"
  /\ ~last.ret
  /\ scene_lab.request = "none"
  /\ scene_lab.exit_ready

\* C21: whenever IsReadyToExit() returns true there are no unsaved entity
\* modifications: entities_modified_ is false, also when it is called right
\* after RequestExit().
C21_ReadyMeansNothingUnsaved ==
  (last.op = "IsReadyToExit" /\ last.ret) => ~scene_lab.entities_modified

\* C21 for the calls that follow an AdvanceFrame() with no call in between
\* but other IsReadyToExit() calls.
C21_ReadyAfterAdvanceFrame ==
  [][(last.op = "AdvanceFrame" /\ last'.op = "IsReadyToExit" /\ last'.ret)
       => ~scene_lab'.entities_modified]_vars

\* C22: while gui_->CanDeselectEntity() is false no AdvanceFrame() call
\* changes which entity is selected, whatever keys or buttons are pressed.
C22_SelectionKeptWhileModified ==
  [][(last'.op = "AdvanceFrame" /\ ~last'.can_deselect)
       => scene_lab'.selected_entity = scene_lab.selected_entity]_vars

\* C22 for the frames in which neither FPLK_INSERT nor FPLK_DELETE goes down.
C22_SelectionKeptByBracketsAndClicks ==
  [][(last'.op = "AdvanceFrame" /\ ~last'.can_deselect
        /\ last'.key \notin {"insert", "delete"})
       => scene_lab'.selected_entity = scene_lab.selected_entity]_vars

\* The modified drafts whose commit resizes the buffer, strings and vector
\* sizes, that the Update() about to run commits.
PendingResizes ==
  {f \in ModifiedIds \cap (StringIds \cup SizeIds \cup PaddedSizeIds) :
     CommitsField(f)}

\* C23: whatever the drafts are, the commit loop of CommitEditsToFlatbuffer
\* terminates, after at most one CommitEdits pass more than there are pending
\* resize-triggering edits.
C23_CommitLoopTerminates ==
  [][(IsUpdate /\ process' # "crashed")
       => /\ process' # "hung"
          /\ last'.passes <= 1 + Cardinality(PendingResizes)]_vars

\* The sequences of ss, one after the other.
RECURSIVE Concat(_)
Concat(ss) == IF ss = << >> THEN << >> ELSE Head(ss) \o Concat(Tail(ss))

\* The ids of the fields a table holds, in the order of the schema's field
\* lists, the fields of a subtable before the table's next field.
RECURSIVE IdsInOrder(_, _, _)
IdsInOrder(objectdef, table, id) ==
  LET IdsOf(f) ==
        IF ~table[f.name].present THEN << >>
        ELSE IF f.base = "Obj" /\ ~Objects[f.index].is_struct
        THEN IdsInOrder(f.index, table[f.name].v, id \o "." \o f.name)
        ELSE IF f.base = "Vector"
        THEN << id \o "." \o f.name \o ".size" >>
               \o Concat([i \in 1..Len(table[f.name].v) |->
                     IF f.element = "Obj" /\ ~Objects[f.index].is_struct
                     THEN IdsInOrder(f.index, table[f.name].v[i],
                                     id \o "." \o f.name \o IdxId(i - 1))
                     ELSE << id \o "." \o f.name \o IdxId(i - 1) >>])
        ELSE << id \o "." \o f.name >>
  IN Concat([k \in 1..Len(Objects[objectdef].fields) |->
               IdsOf(Objects[objectdef].fields[k])])

\* The text form of every field of the table root, by id.
TextsOf(root) ==
  VisitFlatbufferTable(kCheckEdits, table_def_, root, root_id,
                       [Ed(NoEvent) EXCEPT !.edit_fields = << >>]).st.edit_fields

\* The fields whose text the pass p of a commit loop changed.
WrittenBy(p) ==
  {f \in DOMAIN TextsOf(p.before) \cap DOMAIN TextsOf(p.after) :
     TextsOf(p.before)[f] # TextsOf(p.after)[f]}

\* The fields whose write resizes the buffer.
ResizeIds == StringIds \cup SizeIds \cup PaddedSizeIds

\* C24: a CommitEdits pass visits the fields in the order of the schema,
\* depth-first, and returns the instant a write resizes the buffer: the field
\* resized is the last one it visits, it is the only resize of the pass, and
\* a pass that returns false has visited every field and resized nothing.
C24_PassStopsAtResize ==
  last.op = "Update" =>
    \A i \in DOMAIN last.log :
      LET p == last.log[i]
          order == IdsInOrder(table_def_, p.before, root_id)
          n == Len(p.visited)
      IN /\ n <= Len(order)
         /\ p.visited = SubSeq(order, 1, n)
         /\ WrittenBy(p) \subseteq {p.visited[k] : k \in 1..n}
         /\ IF p.ret
            THEN /\ n > 0
                 /\ WrittenBy(p) \cap ResizeIds = {p.visited[n]}
            ELSE /\ n = Len(order)
                 /\ WrittenBy(p) \cap ResizeIds = {}

\* An Update() ran three passes: the first stopped at the string it resized
\* with the vector's size still to commit, the second at the vector's size.
C24_Witness ==
  /\ last.op = "Update"
  /\ Len(last.log) = 3
  /\ last.log[1].ret /\ last.log[2].ret /\ ~last.log[3].ret
  /\ Len(last.log[1].visited) < Len(last.log[2].visited)

\* The elements of Grid's vector of scalars.
Cells == IF table_def_ = "Grid" THEN flatbuffer.root.cells.v ELSE << >>

\* Element i (0-based) of the vector has a draft that is the text of a value
\* of the element type other than the stored one.
ElementEdited(i) ==
  /\ i < Len(Cells)
  /\ (root_id \o ".cells" \o IdxId(i)) \in DOMAIN edit_fields
  /\ ValidNumeric(edit_fields[root_id \o ".cells" \o IdxId(i)],
                  Objects["Grid"].fields[1].element)
  /\ StringToInt(edit_fields[root_id \o ".cells" \o IdxId(i)]) # Cells[i + 1]

\* C25: an element of a vector of scalars is edited like a scalar field: an
\* Update() that commits its draft, the text of a valid value other than the
\* stored one, leaves the element with that value.
C25_ElementCommitted ==
  [][\A i \in 0..MaxVecLen :
       (IsUpdate /\ process' = "running" /\ ElementEdited(i)
          /\ CommitsField(root_id \o ".cells" \o IdxId(i))
          /\ i < Len(flatbuffer'.root.cells.v))
         => flatbuffer'.root.cells.v[i + 1] =
              StringToInt(edit_fields[root_id \o ".cells" \o IdxId(i)])]_vars

\* C25, its second half: the CheckOnly pass reports such an edit as modified.
C25_ElementEditDetected ==
  (\E i \in 0..MaxVecLen : ElementEdited(i))
    => VisitFlatbufferTable(kCheckEdits, table_def_, flatbuffer.root, root_id,
                            [Ed(NoEvent) EXCEPT !.edit_fields_modified = FALSE]
                           ).st.edit_fields_modified

\* The fields the passes of the last Update() wrote.
JustCommitted ==
  UNION {WrittenBy(last.log[i]) : i \in DOMAIN last.log}

\* C26: when the commit pass completes without a resize, the drafts of the
\* fields just committed are removed from the edit-field map.
C26_CommittedDraftsRemoved ==
  (last.op = "Update" /\ process = "running")
    => JustCommitted \cap DOMAIN edit_fields = {}

\* What holds instead: every field an Update() wrote still has its draft.
C26_CommittedDraftsKept ==
  (last.op = "Update" /\ process = "running")
    => JustCommitted \subseteq DOMAIN edit_fields

\* C27: after every commit pass the error set holds exactly the fields whose
\* draft fails to parse as the field's declared scalar or struct type.
C27_ErrorSetTracksInvalidDrafts ==
  (last.op = "Update" /\ last.passes > 0 /\ process = "running")
    => error_fields =
         {f \in DOMAIN edit_fields \cap (ScalarIds \cup StructIds) : Errored(f)}

\* What holds instead: nothing is ever put in the error set.
C27_ErrorSetEmpty == error_fields = {}

\* The fields of Holder's subtable.
SubIds == {root_id \o ".sub.val", root_id \o ".sub.label"}

\* The text of field f of the subtable of root.
SubText(root, f) ==
  IF f = root_id \o ".sub.val" THEN NumToString(root.sub.v.val.v)
  ELSE root.sub.v.label.v

\* The subtable is collapsed and holds a draft that differs from the buffer,
\* a scalar's draft being the text of a value of its type.
CollapsedEdit(f) ==
  /\ table_def_ = "Holder"
  /\ (root_id \o ".sub") \notin expanded_subtables
  /\ f \in SubIds \cap DOMAIN edit_fields
  /\ edit_fields[f] # SubText(flatbuffer.root, f)
  /\ f \in ScalarIds => ValidNumeric(edit_fields[f], ScalarType(f))

\* C28: a collapsed subtable is still traversed by the CheckOnly and the
\* CommitEdits passes: a modified draft inside it is reported by the check
\* pass and written by a commit of all fields, while a drawing pass visits
\* none of its fields.
C28_CollapsedSubtableCommitted ==
  [][\A f \in SubIds :
       (IsUpdate /\ process' = "running" /\ CollapsedEdit(f)
          /\ force_commit_field = "" /\ button_pressed = kCommit)
         => /\ VisitFlatbufferTable(kCheckEdits, table_def_, flatbuffer.root,
                 root_id, [Ed(NoEvent) EXCEPT !.edit_fields_modified = FALSE]
               ).st.edit_fields_modified
            /\ \A k \in DOMAIN DrawBody(NoEvent).st.visited :
                 DrawBody(NoEvent).st.visited[k] \notin SubIds
            /\ SubText(flatbuffer'.root, f) = edit_fields[f]]_vars

\* An Update() for [Apply All] wrote a field of the subtable while the
\* subtable was collapsed.
C28_Witness ==
  /\ last.op = "Update"
  /\ last.button = kCommit
  /\ table_def_ = "Holder"
  /\ (root_id \o ".sub") \notin expanded_subtables
  /\ JustCommitted \cap SubIds # {}

\* C29: a request queued during Draw() is acted on by the next Update(): a
\* forced-commit field or [Apply All] makes it run the commit loop, [Revert
\* All] alone makes it discard the drafts; when it returns no request is
\* pending, and an Update() that follows it with no Draw() in between changes
\* neither the buffer nor the drafts.
C29_RequestsServedOnce ==
  [][(IsUpdate /\ process' = "running")
       => /\ force_commit_field' = "" /\ button_pressed' = kNone
          /\ (force_commit_field # "" \/ button_pressed = kCommit)
               => last'.passes >= 1
          /\ (force_commit_field = "" /\ button_pressed = kRevert)
               => edit_fields' = << >> /\ flatbuffer' = flatbuffer
          /\ last.op = "Update"
               => /\ last'.passes = 0
                  /\ flatbuffer' = flatbuffer
                  /\ edit_fields' = edit_fields]_vars

\* An Update() has served a forced commit in two passes and left no request
\* behind.
C29_Witness ==
  /\ last.op = "Update"
  /\ last.forced # ""
  /\ last.passes = 2
  /\ force_commit_field = ""
  /\ button_pressed = kNone

\* C30: an Update() with a forced-commit field writes the draft of that field
\* alone: every other field keeps its value in the buffer and its draft, also
\* when its draft is modified and when a resize restarts the pass.
C30_ForcedCommitWritesOneField ==
  [][(IsUpdate /\ process' = "running" /\ force_commit_field # "")
       => /\ \A g \in (DOMAIN BufferTexts \cap DOMAIN TextsOf(flatbuffer'.root))
                        \ {force_commit_field} :
                TextsOf(flatbuffer'.root)[g] = BufferTexts[g]
          /\ \A g \in DOMAIN edit_fields \ {force_commit_field} :
                g \in DOMAIN edit_fields' /\ edit_fields'[g] = edit_fields[g]]_vars

\* An Update() committed the forced string field with a resize, in two
\* passes, and another field is left with its modified draft.
C30_Witness ==
  /\ last.op = "Update"
  /\ last.forced \in StringIds \cup SizeIds
  /\ last.resized = 1
  /\ last.forced \in JustCommitted
  /\ ModifiedIds \ {last.forced} # {}

\* C31: an Update() that processes [Revert All] removes every draft and
\* empties the error set, and leaves the working buffer, the modified flag
\* and the committed set as they were; the next pass seeds every field from
\* the buffer and finds nothing modified.
C31_RevertAllClearsDrafts ==
  [][/\ (IsUpdate /\ process' = "running" /\ force_commit_field = ""
           /\ button_pressed = kRevert)
          => /\ edit_fields' = << >>
             /\ error_fields' = {}
             /\ flatbuffer' = flatbuffer
             /\ flatbuffer_modified' = flatbuffer_modified
             /\ committed_fields' = committed_fields
     /\ (last.op = "Update" /\ last.forced = "" /\ last.button = kRevert)
          => /\ VisitFlatbufferTable(kCheckEdits, table_def_, flatbuffer.root,
                  root_id, [Ed(NoEvent) EXCEPT !.edit_fields_modified = FALSE]
                ).st.edit_fields = BufferTexts
             /\ ~VisitFlatbufferTable(kCheckEdits, table_def_, flatbuffer.root,
                  root_id, [Ed(NoEvent) EXCEPT !.edit_fields_modified = FALSE]
                ).st.edit_fields_modified]_vars

\* An Update() has processed [Revert All] on an editor whose buffer an
\* earlier commit had modified.
C31_Witness ==
  /\ last.op = "Update"
  /\ last.forced = ""
  /\ last.button = kRevert
  /\ edit_fields = << >>
  /\ flatbuffer_modified
  /\ committed_fields # {}

\* ClearFlatbufferModifiedFlag() and then a commit of all fields, run on the
\* current state.
Recommit ==
  CommitEditsToFlatbuffer(ClearModifiedFlag(Ed(NoEvent)), flatbuffer.root)

\* The commit of all fields that an Update() has just completed.
CommittedAll ==
  /\ last.op = "Update"
  /\ last.forced = ""
  /\ last.button = kCommit
  /\ process = "running"

\* C32: commit is idempotent: after a commit of all fields and
\* ClearFlatbufferModifiedFlag(), a second commit of all fields with no user
\* input in between writes nothing: the buffer is unchanged,
\* flatbuffer_modified() stays false, and no field whose draft parses is
\* still modified.
C32_CommitIdempotent ==
  CommittedAll
    => /\ Recommit.returns
       /\ Recommit.root = flatbuffer.root
       /\ ~Recommit.st.flatbuffer_modified
       /\ \A f \in ModifiedIds \cap (ScalarIds \cup StructIds) : Errored(f)

\* C32, the part that holds: the second commit leaves the buffer unchanged.
C32_RecommitKeepsBuffer ==
  CommittedAll => Recommit.returns /\ Recommit.root = flatbuffer.root

\* C32 for the drafts that are the text of a value of the field's type: the
\* second commit leaves the modified flag false.
C32_RecommitOfValidDrafts ==
  (CommittedAll /\ \A f \in DOMAIN edit_fields \cap (ScalarIds \cup StructIds) :
                     ~Errored(f))
    => ~Recommit.st.flatbuffer_modified /\ ModifiedIds = {}

\* C33: while read-only mode is set no Draw() and no Update() changes the
\* working buffer or sets the modified flag, whatever drafts and requests
\* were there when the mode was switched on.
C33_ReadOnlyKeepsBuffer ==
  [][(config_read_only /\ config_read_only')
       => /\ flatbuffer' = flatbuffer
          /\ flatbuffer_modified' => flatbuffer_modified]_vars

\* C34: an Update() called while the editor holds no data runs no commit
\* traversal: it returns, and it reads and writes no buffer contents.
C34_NoTraversalWithoutData ==
  [][(~HasFlatbufferData /\ process = "running"
        /\ (IsUpdate \/ process' # "running"))
       => /\ process' = "running"
          /\ last'.passes = 0
          /\ flatbuffer' = flatbuffer]_vars

\* C34, when no request is pending: Update() on an editor with no data
\* leaves everything but the requests as it was.
C34_IdleUpdateWithoutData ==
  [][(~HasFlatbufferData /\ process = "running"
        /\ force_commit_field = "" /\ button_pressed # kCommit
        /\ (IsUpdate \/ process' # "running"))
       => /\ process' = "running"
          /\ last'.passes = 0
          /\ flatbuffer' = flatbuffer]_vars

\* The draft of field f is the text of a value of the field's type.
ValidDraft(f) ==
  /\ ~Errored(f)
  /\ f \in ElementIds
       => ValidNumeric(edit_fields[f], Objects["Grid"].fields[1].element)

\* A frame in which the user clicks widget w.
ClickOn(w) == [kind |-> "click", id |-> w, text |-> << >>]

\* C35, whatever else is pending: an Update() that finds kCommit pending
\* writes every modified valid draft, also when a field's [apply] was
\* clicked in a Draw() after the one that took the click on [Apply All].
C35_ApplyAllCommitsDraftsAlways ==
  [][(IsUpdate /\ process' = "running" /\ ~config_auto_commit
        /\ button_pressed = kCommit)
       => \A f \in ModifiedIds :
            (ValidDraft(f) /\ f \in DOMAIN TextsOf(flatbuffer'.root))
              => TextsOf(flatbuffer'.root)[f] = edit_fields[f]]_vars

\* C35, the requests alone: whenever Draw() shows the two buttons, a click
\* on one leaves that button's request pending.
C35_ButtonsQueueRequests ==
  (HasFlatbufferData /\ ~config_auto_commit /\ process = "running")
    => /\ ClickOn("[Apply All]") \in UserEvents
            => DrawBody(ClickOn("[Apply All]")).st.button_pressed = kCommit
       /\ ClickOn("[Revert All]") \in UserEvents
            => DrawBody(ClickOn("[Revert All]")).st.button_pressed = kRevert

\* C35: in manual mode a click on [Apply All] during Draw() leaves kCommit
\* as the pending request and a click on [Revert All] leaves kRevert, and
\* the Update() that follows a click on [Apply All] writes every modified
\* draft that is valid: the field then reads as its draft.
C35_ApplyAllCommitsDrafts ==
  [][(IsUpdate /\ process' = "running" /\ ~config_auto_commit
        /\ button_pressed = kCommit /\ force_commit_field = "")
       => \A f \in ModifiedIds :
            (ValidDraft(f) /\ f \in DOMAIN TextsOf(flatbuffer'.root))
              => TextsOf(flatbuffer'.root)[f] = edit_fields[f]]_vars

\* C36: the validation of a struct draft accepts it only if it has exactly
\* one value for every field, in schema order: a draft with fewer values, or
\* with more after the last field, is rejected, and nothing is written.
C36_StructDraftExact ==
  last.op = "VisitFlatbufferStruct"
    => /\ last.result.st.flatbuffer_modified => last.kind = "exact"
       /\ last.kind # "exact" => last.result.tbl = last.fbstruct

\* C36, for a draft with no number in it: it is rejected and nothing is
\* written.
C36_NoNumberRejected ==
  (last.op = "VisitFlatbufferStruct" /\ last.kind = "nonumber")
    => /\ ~last.result.st.flatbuffer_modified
       /\ last.result.tbl = last.fbstruct

\* C36, for the text of a struct without struct fields: it is accepted and
\* every field is written.
C36_FlatTextAccepted ==
  (last.op = "VisitFlatbufferStruct" /\ last.kind = "exact"
     /\ last.objectdef = "Vec2")
    => /\ last.result.st.flatbuffer_modified
       /\ last.result.tbl = DraftValue(last.objectdef)

\* C37: the entity-cycling loop of AdvanceFrame ends in every frame, whatever
\* the entities and their selection options, also when a bracket key went
\* down and cycling may select no entity: AdvanceFrame returns.
C37_CyclingTerminates ==
  [][(last'.op = "AdvanceFrame" /\ process = "running")
       => process' = "running"]_vars

\* C37, when cycling may select some entity: the loop ends.
C37_CyclingTerminatesOnSelectable ==
  [][(last'.op = "AdvanceFrame" /\ process = "running"
        /\ \E e \in EntityIds(scene_lab.entities) :
              scene_lab.entities[e] \in
                {SelectionOption_Any, SelectionOption_CycleOnly})
       => process' = "running"]_vars

\* The mouse is locked exactly when the input mode is kMoving.
LockedIffMoving ==
  scene_lab.mouse_locked <=> scene_lab.input_mode = kMoving

\* C38: once Activate() was called, after every AdvanceFrame() and every
\* RequestExit() the mouse is locked if and only if the input mode is
\* kMoving.
C38_MouseLockedIffMoving ==
  (last.op \in {"AdvanceFrame", "RequestExit"} /\ process = "running"
     /\ scene_lab.activated)
    => LockedIffMoving

\* C38, for AdvanceFrame() alone: a frame that starts with the mouse locked
\* exactly when the mode is kMoving ends so, and Activate() leaves kMoving
\* with the mouse locked.
C38_AdvanceFrameKeepsLock ==
  [][/\ (last'.op = "AdvanceFrame" /\ process' = "running" /\ LockedIffMoving)
          => LockedIffMoving'
     /\ last'.op = "Activate"
          => scene_lab'.mouse_locked /\ scene_lab'.input_mode = kMoving]_vars

\* C39: whenever the input mode is kDragging an entity is selected, and it
\* is the entity that was selected when the drag started.
C39_DraggedEntitySelected ==
  (process = "running" /\ scene_lab.input_mode = kDragging)
    => /\ scene_lab.selected_entity # NoEntity
       /\ scene_lab.selected_entity = scene_lab.drag_entity

\* C39, the start of a drag: the mode becomes kDragging only in an
\* AdvanceFrame() that was in kEditing or toggled from kMoving to it, and it
\* leaves an entity selected.
C39_DragStartsWithSelection ==
  [][(scene_lab'.input_mode = kDragging /\ scene_lab.input_mode # kDragging)
       => /\ last'.op = "AdvanceFrame"
          /\ scene_lab.input_mode \in {kEditing, kMoving}
          /\ scene_lab'.selected_entity # NoEntity
          /\ scene_lab'.selected_entity = scene_lab'.drag_entity]_vars

\* C39, for the frames of a drag in which no button goes down: an
\* AdvanceFrame() that starts and ends in kDragging leaves the selected
\* entity as it was, whatever key is pressed.
C39_FramesKeepDraggedEntity ==
  [][(last'.op = "AdvanceFrame" /\ process' = "running"
        /\ last'.key # "click"
        /\ scene_lab.input_mode = kDragging
        /\ scene_lab'.input_mode = kDragging)
       => scene_lab'.selected_entity = scene_lab.selected_entity]_vars

\* C12: after SetFlatbufferData(flatbuffer_data) the draft map is empty, the
\* draft-modified and buffer-modified flags are false, the error set and the
\* committed set are empty, and the working buffer is a copy of
\* flatbuffer_data, or empty when flatbuffer_data is null.
C12_SetDataDiscardsEdits ==
  last.op = "SetFlatbufferData"
    => /\ edit_fields = << >>
       /\ ~edit_fields_modified
       /\ ~flatbuffer_modified
       /\ error_fields = {}
       /\ committed_fields = {}
       /\ IF last.flatbuffer_data = NullData
          THEN ~HasFlatbufferData
          ELSE HasFlatbufferData /\ flatbuffer.root = last.flatbuffer_data

\* A buffer with committed edits and modified drafts was replaced.
C12_Witness ==
  /\ last.op = "SetFlatbufferData"
  /\ last.flatbuffer_data = SourceTable[table_def_]
  /\ last.before.edit_fields_modified
  /\ last.before.flatbuffer_modified
  /\ edit_fields = << >>
  /\ flatbuffer.root = SourceTable[table_def_]

\* C13: HasFlatbufferData() is false after construction or replacement with
\* a null flatbuffer_data; GetFlatbufferCopy reports success exactly when
\* HasFlatbufferData(), and when it fails it returns false (or a null
\* pointer) and leaves the caller's output as it was.
C13_NoDataNoCopy ==
  /\ (last.op \in {"FlatbufferEditor", "SetFlatbufferData"}
        => (HasFlatbufferData <=> last.flatbuffer_data # NullData))
  /\ (last.op = "GetFlatbufferCopy"
        => /\ last.result.ret <=> HasFlatbufferData
           /\ ~HasFlatbufferData
                => IF last.variant = "unique_ptr"
                   THEN last.result.out = NullData
                   ELSE last.result.out = last.before)

\* A copy into a string was asked of an editor whose data had been replaced
\* with null.
C13_Witness ==
  /\ last.op = "GetFlatbufferCopy"
  /\ last.variant = "string"
  /\ ~HasFlatbufferData
  /\ flatbuffer.root # NullData
  /\ ~last.result.ret
  /\ last.result.out = SourceTable[table_def_]

\* C14: ClearFlatbufferModifiedFlag() sets the buffer-modified flag to false
\* and empties the committed set, and changes neither the buffer, nor the
\* drafts, nor a pending commit request, nor any other member.
C14_ClearOnlyClearsFlag ==
  [][last'.op = "ClearFlatbufferModifiedFlag"
       => /\ ~flatbuffer_modified'
          /\ committed_fields' = {}
          /\ UNCHANGED <<flatbuffer, edit_fields, edit_fields_modified,
                         error_fields, force_commit_field, button_pressed,
                         currently_editing_field, expanded_subtables,
                         keyboard_in_use, config_read_only, config_auto_commit,
                         config_allow_resize>>]_vars

\* The flag was cleared after a commit changed the buffer, with modified
\* drafts and a commit request pending.
C14_Witness ==
  /\ last.op = "ClearFlatbufferModifiedFlag"
  /\ flatbuffer.root # SourceTable[table_def_]
  /\ edit_fields_modified
  /\ force_commit_field # ""
  /\ ~flatbuffer_modified
  /\ committed_fields = {}

====
